---- MODULE Spec2Model ----
(***************************************************************************)
(* Model of the monthly-schedule day-card pipeline of auto_post:           *)
(*   monthly_schedule_text.py   (_build_day_cards, _normalize_slot,        *)
(*                               _merge_time_text, _build_fixed_time_rows, *)
(*                               _resolve_night_time_line_indexes)         *)
(*   monthly_schedule_utils.py  (_entry_sort_key)                          *)
(*   monthly_schedule_render.py (_draw_day_events, the per-card text part) *)
(*                                                                         *)
(* A Python str is a sequence of characters.  A character is a one-        *)
(* character string for ASCII and the name of its code point ("u591C")     *)
(* otherwise.  None is the empty sequence <<>>; an optional integer n is   *)
(* <<n>>; an optional clock time is <<hour, minute>>.                      *)
(***************************************************************************)
EXTENDS Integers, Sequences, FiniteSets, TLC

\* ------------------------------------------------------------------------
\* Characters and Python str primitives
\* ------------------------------------------------------------------------

\* The characters of the model's texts, in ascending code point order.
CharOrder ==
    << " ", "+", "-", "/", "0", "1", "2", "3", "4", "5", "6", "7", "8", "9", ":",
       "A", "B", "F", "N", "X", "Y", "a", "b", "c", "d", "e", "f", "g", "h", "i", "n",
       "o", "r", "s", "t", "x", "~", "u007F",
       "u0080", "u3000", "u3058", "u3066", "u306F", "u3081", "u30B9", "u30C3", "u30EC",
       "u30F3", "u4E00", "u4E88", "u4E8C", "u4EF6", "u4F1A",
       "u521D", "u540D", "u56DE", "u5834", "u591C", "u5B9A", "u6570", "u6642", "u672A",
       "u7B2C", "u8907", "u90E8", "u9593" >>

Ord(c) == CHOOSE i \in 1..Len(CharOrder) : CharOrder[i] = c

\* str.isspace for one character (space and the ideographic space).
IsSpace(c) == c \in {" ", "u3000"}

UpperChars == <<"A", "B", "F", "N", "X", "Y">>
LowerChars == <<"a", "b", "f", "n", "x", "y">>

\* str.lower
LowerChar(c) ==
    IF \E i \in 1..Len(UpperChars) : UpperChars[i] = c
    THEN LowerChars[CHOOSE i \in 1..Len(UpperChars) : UpperChars[i] = c]
    ELSE c

Lower(s) == [i \in 1..Len(s) |-> LowerChar(s[i])]

RECURSIVE LStrip(_)
LStrip(s) == IF s # <<>> /\ IsSpace(Head(s)) THEN LStrip(Tail(s)) ELSE s

RECURSIVE RStrip(_)
RStrip(s) ==
    IF s # <<>> /\ IsSpace(s[Len(s)]) THEN RStrip(SubSeq(s, 1, Len(s) - 1)) ELSE s

Strip(s) == LStrip(RStrip(s))

\* needle in haystack
Contains(s, t) ==
    \E i \in 0..(Len(s) - Len(t)) : SubSeq(s, i + 1, i + Len(t)) = t

StartsWith(s, t) == Len(t) <= Len(s) /\ SubSeq(s, 1, Len(t)) = t

\* str.split(sep) for a non-empty separator: every piece, empty ones included.
RECURSIVE SplitFrom(_, _, _)
SplitFrom(s, sep, cur) ==
    IF s = <<>> THEN <<cur>>
    ELSE IF StartsWith(s, sep)
         THEN <<cur>> \o SplitFrom(SubSeq(s, Len(sep) + 1, Len(s)), sep, <<>>)
         ELSE SplitFrom(Tail(s), sep, Append(cur, Head(s)))

SplitOn(s, sep) == SplitFrom(s, sep, <<>>)

\* str.split(sep, 1)[0]
SplitHead(s, sep) == SplitOn(s, sep)[1]

\* str.split(): pieces between runs of whitespace, never an empty piece.
RECURSIVE SplitWsFrom(_, _)
SplitWsFrom(s, cur) ==
    IF s = <<>> THEN (IF cur = <<>> THEN <<>> ELSE <<cur>>)
    ELSE IF IsSpace(Head(s))
         THEN (IF cur = <<>> THEN <<>> ELSE <<cur>>) \o SplitWsFrom(Tail(s), <<>>)
         ELSE SplitWsFrom(Tail(s), Append(cur, Head(s)))

SplitWs(s) == SplitWsFrom(s, <<>>)

\* str.replace(old, new)
RECURSIVE Replace(_, _, _)
Replace(s, old, new) ==
    IF s = <<>> THEN <<>>
    ELSE IF StartsWith(s, old)
         THEN new \o Replace(SubSeq(s, Len(old) + 1, Len(s)), old, new)
         ELSE <<Head(s)>> \o Replace(Tail(s), old, new)

\* sep.join(items)
RECURSIVE Join(_, _)
Join(items, sep) ==
    IF items = <<>> THEN <<>>
    ELSE IF Len(items) = 1 THEN items[1]
         ELSE items[1] \o sep \o Join(Tail(items), sep)

DigitChars == <<"0", "1", "2", "3", "4", "5", "6", "7", "8", "9">>

IsDigit(c) == \E i \in 1..Len(DigitChars) : DigitChars[i] = c

DigitValue(c) == (CHOOSE i \in 1..Len(DigitChars) : DigitChars[i] = c) - 1

RECURSIVE DigitsValue(_, _)
DigitsValue(s, acc) ==
    IF s = <<>> THEN acc ELSE DigitsValue(Tail(s), acc * 10 + DigitValue(Head(s)))

\* int(text): <<n>>, or <<>> where Python raises ValueError.  The text is a
\* token of str.split(), so it carries no whitespace.
ParseInt(s) ==
    LET body == IF s # <<>> /\ Head(s) \in {"+", "-"} THEN Tail(s) ELSE s
    IN  IF body = <<>> \/ \E i \in 1..Len(body) : ~IsDigit(body[i])
        THEN <<>>
        ELSE IF s # <<>> /\ Head(s) = "-"
             THEN <<0 - DigitsValue(body, 0)>>
             ELSE <<DigitsValue(body, 0)>>

\* str(n) for n >= 0
RECURSIVE Decimal(_)
Decimal(n) ==
    IF n < 10 THEN <<DigitChars[n + 1]>>
    ELSE Decimal(n \div 10) \o <<DigitChars[(n % 10) + 1]>>

\* Lexicographic str comparison by code point: a < b.
RECURSIVE StrLess(_, _)
StrLess(a, b) ==
    IF b = <<>> THEN FALSE
    ELSE IF a = <<>> THEN TRUE
    ELSE IF Head(a) # Head(b) THEN Ord(Head(a)) < Ord(Head(b))
    ELSE StrLess(Tail(a), Tail(b))

\* ------------------------------------------------------------------------
\* Literals of monthly_schedule_text.py
\* ------------------------------------------------------------------------
TIME_SEP == <<" ", "/", " ">>
TILDE == <<"~">>
UNDECIDED_TIME == <<"u6642", "u9593", "u672A", "u5B9A">>
UNDECIDED_KEY == <<"u672A", "u5B9A">>
MULTI_VENUE == <<"u8907", "u6570", "u4F1A", "u5834">>
NIGHT_MARK == <<"u591C">>
NIGHT_WORD == <<"n", "i", "g", "h", "t">>

SLOT_BEGINNER == <<"b", "e", "g", "i", "n", "n", "e", "r">>
SLOT_SECOND == <<"s", "e", "c", "o", "n", "d">>
SLOT_FIRST == <<"f", "i", "r", "s", "t">>

JP_SHOKAI == <<"u521D", "u56DE">>
JP_HAJIMETE == <<"u306F", "u3058", "u3081", "u3066">>
JP_2BU == <<"2", "u90E8">>
JP_DAI2 == <<"u7B2C", "2">>
JP_NIBU == <<"u4E8C", "u90E8">>
JP_1BU == <<"1", "u90E8">>
JP_DAI1 == <<"u7B2C", "1">>
JP_ICHIBU == <<"u4E00", "u90E8">>

HintBeginnerTokens == {SLOT_BEGINNER, JP_SHOKAI, JP_HAJIMETE}
HintSecondTokens == {SLOT_SECOND, JP_2BU, JP_DAI2, JP_NIBU}
HintFirstTokens == {SLOT_FIRST, JP_1BU, JP_DAI1, JP_ICHIBU}
TitleBeginnerTokens == {JP_SHOKAI, JP_HAJIMETE}
TitleSecondTokens == {JP_2BU, JP_DAI2, JP_NIBU}
TitleFirstTokens == {JP_1BU, JP_DAI1, JP_ICHIBU}

\* any(token in text for token in tokens)
AnyIn(tokens, text) == \E t \in tokens : Contains(text, t)

\* ------------------------------------------------------------------------
\* _normalize_slot
\* ------------------------------------------------------------------------
\* Mutant of NormalizeSlot: the title is checked for first before beginner.
NormalizeSlotTitleOrder(slot, title) ==
    LET value == Lower(Strip(slot))
        combined == Strip(title)
    IN  IF AnyIn(HintBeginnerTokens, value) THEN SLOT_BEGINNER
        ELSE IF AnyIn(HintSecondTokens, value) THEN SLOT_SECOND
        ELSE IF AnyIn(HintFirstTokens, value) THEN SLOT_FIRST
        ELSE IF AnyIn(TitleFirstTokens, combined) THEN SLOT_FIRST
        ELSE IF AnyIn(TitleSecondTokens, combined) THEN SLOT_SECOND
        ELSE IF AnyIn(TitleBeginnerTokens, combined) THEN SLOT_BEGINNER
        ELSE <<>>

\* Mutant of NormalizeSlot: the hint is checked for second and first before
\* beginner.
NormalizeSlotHintOrder(slot, title) ==
    LET value == Lower(Strip(slot))
        combined == Strip(title)
    IN  IF AnyIn(HintSecondTokens, value) THEN SLOT_SECOND
        ELSE IF AnyIn(HintFirstTokens, value) THEN SLOT_FIRST
        ELSE IF AnyIn(HintBeginnerTokens, value) THEN SLOT_BEGINNER
        ELSE IF AnyIn(TitleBeginnerTokens, combined) THEN SLOT_BEGINNER
        ELSE IF AnyIn(TitleSecondTokens, combined) THEN SLOT_SECOND
        ELSE IF AnyIn(TitleFirstTokens, combined) THEN SLOT_FIRST
        ELSE <<>>

NormalizeSlot(slot, title) ==
    LET value == Lower(Strip(slot))
        combined == Strip(title)
    IN  IF AnyIn(HintBeginnerTokens, value) THEN SLOT_BEGINNER
        ELSE IF AnyIn(HintSecondTokens, value) THEN SLOT_SECOND
        ELSE IF AnyIn(HintFirstTokens, value) THEN SLOT_FIRST
        ELSE IF AnyIn(TitleBeginnerTokens, combined) THEN SLOT_BEGINNER
        ELSE IF AnyIn(TitleSecondTokens, combined) THEN SLOT_SECOND
        ELSE IF AnyIn(TitleFirstTokens, combined) THEN SLOT_FIRST
        ELSE <<>>

\* ------------------------------------------------------------------------
\* _format_clock, _format_time_range
\* ------------------------------------------------------------------------
\* f"{value.hour:2d}:{value.minute:02d}"
FormatClock(value) ==
    IF value = <<>> THEN <<>>
    ELSE LET h == Decimal(value[1])
             m == Decimal(value[2])
         IN  (IF Len(h) < 2 THEN <<" ">> ELSE <<>>) \o h \o <<":">>
             \o (IF Len(m) < 2 THEN <<"0">> ELSE <<>>) \o m

FormatTimeRange(entry) ==
    LET start_text == FormatClock(entry.start)
        end_text == FormatClock(entry.end)
    IN  IF start_text # <<>> /\ end_text # <<>> THEN start_text \o TILDE \o end_text
        ELSE IF start_text # <<>> THEN start_text \o TILDE
        ELSE IF end_text # <<>> THEN TILDE \o end_text
        ELSE UNDECIDED_TIME

\* ------------------------------------------------------------------------
\* _expand_time_values, _merge_time_text
\* ------------------------------------------------------------------------
InSeq(x, s) == \E i \in 1..Len(s) : s[i] = x

\* [f(item) for item in items if item.strip()] with f = rstrip
RECURSIVE RStripNonBlank(_)
RStripNonBlank(items) ==
    IF items = <<>> THEN <<>>
    ELSE (IF Strip(Head(items)) # <<>> THEN <<RStrip(Head(items))>> ELSE <<>>)
         \o RStripNonBlank(Tail(items))

ExpandTimeValues(value) ==
    IF Strip(value) = <<>> THEN <<>>
    ELSE RStripNonBlank(SplitOn(value, TIME_SEP))

\* Mutant of MergeTimeText: the new text is compared fully stripped, so a text
\* with a padded hour is never found among the values.
MergeTimeTextStripped(existing, new_text) ==
    IF new_text = <<>> THEN existing
    ELSE IF existing = <<>> THEN new_text
    ELSE LET values == SplitOn(existing, TIME_SEP)
             normalized_new == Strip(new_text)
         IN  IF InSeq(normalized_new, values) THEN existing
             ELSE existing \o TIME_SEP \o new_text

MergeTimeText(existing, new_text) ==
    IF new_text = <<>> THEN existing
    ELSE IF existing = <<>> THEN new_text
    ELSE LET values == RStripNonBlank(SplitOn(existing, TIME_SEP))
             normalized_new == RStrip(new_text)
         IN  IF InSeq(normalized_new, values) THEN existing
             ELSE existing \o TIME_SEP \o new_text

\* ------------------------------------------------------------------------
\* Time-text parsing
\* ------------------------------------------------------------------------
COLON == <<":">>
SPACE == <<" ">>

NightStartHour == 17
NightEndHour == 20
NoonHour == 12
LastHour == 23
LastMinute == 59
NoTimeSortKey == 10000
NoStartSortField == 99

\* str.split(sep, 1)[1] for a text that contains sep
SplitRest(s, sep) ==
    LET head == SplitHead(s, sep)
    IN  SubSeq(s, Len(head) + Len(sep) + 1, Len(s))

\* The token loop of _extract_start_hour_from_time_text: the first hour in 0..23.
RECURSIVE HourScan(_)
HourScan(tokens) ==
    IF tokens = <<>> THEN <<>>
    ELSE IF ~Contains(Head(tokens), COLON) THEN HourScan(Tail(tokens))
    ELSE LET hour == ParseInt(SplitHead(Head(tokens), COLON))
         IN  IF hour = <<>> THEN HourScan(Tail(tokens))
             ELSE IF 0 <= hour[1] /\ hour[1] <= LastHour THEN hour
             ELSE HourScan(Tail(tokens))

ExtractStartHourFromTimeText(value) == HourScan(SplitWs(Replace(value, TILDE, SPACE)))

\* The token loop of _is_night_time_text: decided by the first hour in 0..23.
RECURSIVE NightScan(_)
NightScan(tokens) ==
    IF tokens = <<>> THEN FALSE
    ELSE IF ~Contains(Head(tokens), COLON) THEN NightScan(Tail(tokens))
    ELSE LET hour == ParseInt(SplitHead(Head(tokens), COLON))
         IN  IF hour = <<>> THEN NightScan(Tail(tokens))
             ELSE IF 0 <= hour[1] /\ hour[1] <= LastHour THEN hour[1] >= NightStartHour
             ELSE NightScan(Tail(tokens))

IsNightTimeText(value) == NightScan(SplitWs(Replace(value, TILDE, SPACE)))

\* The token loop of _time_text_to_sort_key.
RECURSIVE SortKeyScan(_)
SortKeyScan(tokens) ==
    IF tokens = <<>> THEN NoTimeSortKey
    ELSE IF ~Contains(Head(tokens), COLON) THEN SortKeyScan(Tail(tokens))
    ELSE LET hour == ParseInt(SplitHead(Head(tokens), COLON))
             minute == ParseInt(SplitRest(Head(tokens), COLON))
         IN  IF hour = <<>> \/ minute = <<>> THEN SortKeyScan(Tail(tokens))
             ELSE IF /\ 0 <= hour[1] /\ hour[1] <= LastHour
                     /\ 0 <= minute[1] /\ minute[1] <= LastMinute
                  THEN hour[1] * 60 + minute[1]
                  ELSE SortKeyScan(Tail(tokens))

TimeTextToSortKey(time_text) ==
    LET value == Strip(time_text)
    IN  IF value = <<>> THEN NoTimeSortKey
        ELSE SortKeyScan(SplitWs(
                 Replace(Replace(Replace(value, <<" ", "-", " ">>, SPACE),
                                 <<"-">>, SPACE), TILDE, SPACE)))

\* ------------------------------------------------------------------------
\* _is_night_entry, _entry_sort_key, sorted(events, key=_entry_sort_key)
\* ------------------------------------------------------------------------
\* Variant: the start hour alone decides.
IsNightEntryStartOnly(entry) ==
    entry.start # <<>> /\ entry.start[1] >= NightStartHour

IsNightEntry(entry) ==
    \/ entry.start # <<>> /\ entry.start[1] >= NightStartHour
    \/ entry.end # <<>> /\ entry.end[1] >= NightEndHour
    \/ Contains(Lower(Strip(entry.slot)), NIGHT_WORD)
    \/ Contains(Lower(Strip(entry.slot)), NIGHT_MARK)
    \/ Contains(Strip(entry.title), NIGHT_MARK)

\* datetime.date: a calendar date, compared by year, month, day.
Date(y, m, d) == [year |-> y, month |-> m, day |-> d]

DateLess(a, b) ==
    \/ a.year < b.year
    \/ a.year = b.year /\ a.month < b.month
    \/ a.year = b.year /\ a.month = b.month /\ a.day < b.day

EntrySortKey(entry) ==
    IF entry.start # <<>>
    THEN [day |-> entry.day, hour |-> entry.start[1], minute |-> entry.start[2],
          title |-> entry.title]
    ELSE [day |-> entry.day, hour |-> NoStartSortField, minute |-> NoStartSortField,
          title |-> entry.title]

\* Tuple comparison of two entry sort keys: a < b.
EntryKeyLess(a, b) ==
    \/ DateLess(a.day, b.day)
    \/ a.day = b.day /\ a.hour < b.hour
    \/ a.day = b.day /\ a.hour = b.hour /\ a.minute < b.minute
    \/ a.day = b.day /\ a.hour = b.hour /\ a.minute = b.minute
       /\ StrLess(a.title, b.title)

RECURSIVE InsertEntry(_, _)
InsertEntry(e, s) ==
    IF s = <<>> THEN <<e>>
    ELSE IF EntryKeyLess(EntrySortKey(e), EntrySortKey(Head(s))) THEN <<e>> \o s
    ELSE <<Head(s)>> \o InsertEntry(e, Tail(s))

\* sorted() is stable: equal keys keep the order of the input list.
RECURSIVE SortEntries(_)
SortEntries(s) ==
    IF s = <<>> THEN <<>>
    ELSE InsertEntry(s[Len(s)], SortEntries(SubSeq(s, 1, Len(s) - 1)))

\* ------------------------------------------------------------------------
\* calendar.Calendar(firstweekday=0).monthdatescalendar(year, month)
\* ------------------------------------------------------------------------
IsLeap(y) == y % 4 = 0 /\ (y % 100 # 0 \/ y % 400 = 0)

MonthLen(y, m) ==
    IF m = 2 THEN (IF IsLeap(y) THEN 29 ELSE 28)
    ELSE IF m \in {4, 6, 9, 11} THEN 30 ELSE 31

DaysBeforeYear(y) ==
    (y - 1) * 365 + (y - 1) \div 4 - (y - 1) \div 100 + (y - 1) \div 400

RECURSIVE DaysBeforeMonth(_, _)
DaysBeforeMonth(y, m) ==
    IF m = 1 THEN 0 ELSE DaysBeforeMonth(y, m - 1) + MonthLen(y, m - 1)

\* date.toordinal
Ymd2Ord(y, m, d) == DaysBeforeYear(y) + DaysBeforeMonth(y, m) + d

\* date.weekday: Monday is 0
Weekday(y, m, d) == (Ymd2Ord(y, m, d) + 6) % 7

PrevMonth(y, m) == IF m = 1 THEN <<y - 1, 12>> ELSE <<y, m - 1>>

NextMonth(y, m) == IF m = 12 THEN <<y + 1, 1>> ELSE <<y, m + 1>>

\* Calendar.itermonthdates with firstweekday = 0: the days of the month, with
\* the last days of the previous month and the first days of the next month
\* that complete the first and the last week.
IterMonthDates(year, month) ==
    LET day1 == Weekday(year, month, 1)
        ndays == MonthLen(year, month)
        days_before == day1 % 7
        days_after == (0 - day1 - ndays) % 7
        prev == PrevMonth(year, month)
        next == NextMonth(year, month)
        end == MonthLen(prev[1], prev[2]) + 1
    IN  [i \in 1..days_before |-> Date(prev[1], prev[2], end - days_before + i - 1)]
            \o [d \in 1..ndays |-> Date(year, month, d)]
            \o [d \in 1..days_after |-> Date(next[1], next[2], d)]

\* The weeks of the month, Monday first, seven dates each.
MonthDatesCalendar(year, month) ==
    LET dates == IterMonthDates(year, month)
    IN  [w \in 1..(Len(dates) \div 7) |-> SubSeq(dates, 7 * (w - 1) + 1, 7 * w)]

\* _calendar_visible_date_range: the first and the last date of the grid.
CalendarVisibleDateRange(year, month) ==
    LET weeks == MonthDatesCalendar(year, month)
    IN  IF weeks = <<>> THEN <<Date(year, month, 1), Date(year, month, 1)>>
        ELSE <<weeks[1][1], weeks[Len(weeks)][7]>>

\* ------------------------------------------------------------------------
\* DayCard, and the loop body of _build_day_cards
\* ------------------------------------------------------------------------
\* DayCard(classroom=classroom, venue=venue)
NewDayCard(classroom, venue) ==
    [classroom |-> classroom, venue |-> venue, first_time |-> <<>>,
     second_time |-> <<>>, beginner_time |-> <<>>, has_night |-> FALSE,
     other_times |-> <<>>]

\* Mutant of CardKey: the key is taken from the classroom as given, not stripped.
CardKeyUnstripped(entry) ==
    IF entry.classroom # <<>> THEN entry.classroom ELSE UNDECIDED_KEY

\* key = classroom or the undecided key
CardKey(entry) ==
    IF Strip(entry.classroom) # <<>> THEN Strip(entry.classroom) ELSE UNDECIDED_KEY

\* by_key is a dict in insertion order: a sequence of [key, card].
HasKey(dict, key) == \E i \in 1..Len(dict) : dict[i].key = key

KeyIndex(dict, key) == CHOOSE i \in 1..Len(dict) : dict[i].key = key

\* Mutant of ReconcileVenue: the last non-empty venue replaces the card's venue.
ReconcileVenueLastWins(card_venue, venue) ==
    IF venue = <<>> THEN card_venue ELSE venue

\* The venue reconciliation of one entry on an existing card.
ReconcileVenue(card_venue, venue) ==
    IF venue = <<>> THEN card_venue
    ELSE IF card_venue = <<>> THEN venue
    ELSE IF card_venue # venue /\ card_venue # MULTI_VENUE THEN MULTI_VENUE
    ELSE card_venue

\* Mutant of MergeSlot: a second-slot time is merged into first_time.
MergeSlotSwapped(card, slot, time_text) ==
    IF slot = SLOT_FIRST \/ slot = SLOT_SECOND
    THEN [card EXCEPT !.first_time = MergeTimeText(card.first_time, time_text)]
    ELSE IF slot = SLOT_BEGINNER
    THEN [card EXCEPT !.beginner_time = MergeTimeText(card.beginner_time, time_text)]
    ELSE IF time_text # <<>> /\ ~InSeq(time_text, card.other_times)
    THEN [card EXCEPT !.other_times = Append(card.other_times, time_text)]
    ELSE card

\* The slot dispatch of one entry: merge its time text into the card.
MergeSlot(card, slot, time_text) ==
    IF slot = SLOT_FIRST
    THEN [card EXCEPT !.first_time = MergeTimeText(card.first_time, time_text)]
    ELSE IF slot = SLOT_SECOND
    THEN [card EXCEPT !.second_time = MergeTimeText(card.second_time, time_text)]
    ELSE IF slot = SLOT_BEGINNER
    THEN [card EXCEPT !.beginner_time = MergeTimeText(card.beginner_time, time_text)]
    ELSE IF time_text # <<>> /\ ~InSeq(time_text, card.other_times)
    THEN [card EXCEPT !.other_times = Append(card.other_times, time_text)]
    ELSE card

\* One iteration of the loop over the sorted entries.
MergeEntryInto(dict, entry) ==
    LET classroom == Strip(entry.classroom)
        venue == Strip(entry.venue)
        key == CardKey(entry)
        base == IF HasKey(dict, key)
                THEN [dict[KeyIndex(dict, key)].card EXCEPT
                          !.venue = ReconcileVenue(@, venue)]
                ELSE NewDayCard(classroom, venue)
        merged == MergeSlot(base, NormalizeSlot(entry.slot, entry.title),
                            FormatTimeRange(entry))
        card == IF IsNightEntry(entry) THEN [merged EXCEPT !.has_night = TRUE]
                ELSE merged
    IN  IF HasKey(dict, key)
        THEN [dict EXCEPT ![KeyIndex(dict, key)].card = card]
        ELSE Append(dict, [key |-> key, card |-> card])

\* The backfill of one card from its other_times, in order.
RECURSIVE BackfillCard(_, _)
BackfillCard(card, times) ==
    IF times = <<>> THEN card
    ELSE LET time_text == Head(times)
             next ==
                 IF card.first_time = <<>>
                 THEN [card EXCEPT !.first_time = time_text]
                 ELSE IF card.second_time = <<>> /\ time_text # card.first_time
                 THEN [card EXCEPT !.second_time = time_text]
                 ELSE IF /\ card.beginner_time = <<>>
                         /\ time_text \notin {card.first_time, card.second_time}
                 THEN [card EXCEPT !.beginner_time = time_text]
                 ELSE card
         IN  BackfillCard(next, Tail(times))

\* _card_sort_key and cards.sort(key=_card_sort_key)
FirstNonEmpty(card) ==
    IF card.first_time # <<>> THEN card.first_time
    ELSE IF card.second_time # <<>> THEN card.second_time
    ELSE card.beginner_time

CardSortKey(card) ==
    [time |-> TimeTextToSortKey(FirstNonEmpty(card)), classroom |-> card.classroom]

\* Variant: the classroom decides before the time.
CardKeyLessByClassroom(a, b) ==
    \/ StrLess(a.classroom, b.classroom)
    \/ a.classroom = b.classroom /\ a.time < b.time

CardKeyLess(a, b) ==
    \/ a.time < b.time
    \/ a.time = b.time /\ StrLess(a.classroom, b.classroom)

RECURSIVE InsertCard(_, _)
InsertCard(c, s) ==
    IF s = <<>> THEN <<c>>
    ELSE IF CardKeyLess(CardSortKey(c), CardSortKey(Head(s))) THEN <<c>> \o s
    ELSE <<Head(s)>> \o InsertCard(c, Tail(s))

RECURSIVE SortCards(_)
SortCards(s) ==
    IF s = <<>> THEN <<>>
    ELSE InsertCard(s[Len(s)], SortCards(SubSeq(s, 1, Len(s) - 1)))

\* ------------------------------------------------------------------------
\* _build_fixed_time_rows
\* ------------------------------------------------------------------------
\* The first candidate that is non-empty and differs from line1, else "".
RECURSIVE FirstOther(_, _)
FirstOther(candidates, line1) ==
    IF candidates = <<>> THEN <<>>
    ELSE IF Head(candidates) # <<>> /\ Head(candidates) # line1 THEN Head(candidates)
    ELSE FirstOther(Tail(candidates), line1)

HeadOr(s, default) == IF s # <<>> THEN Head(s) ELSE default

\* The classification lists of _build_fixed_time_rows.
NightValues(values) == SelectSeq(values, IsNightTimeText)

NonNightValues(values) == SelectSeq(values, LAMBDA v : ~IsNightTimeText(v))

UnknownValues(values) ==
    SelectSeq(values, LAMBDA v : ExtractStartHourFromTimeText(v) = <<>>)

MorningValues(values) ==
    SelectSeq(values, LAMBDA v : /\ ExtractStartHourFromTimeText(v) # <<>>
                                 /\ ExtractStartHourFromTimeText(v)[1] < NoonHour)

AfternoonValues(values) ==
    SelectSeq(values, LAMBDA v : /\ ExtractStartHourFromTimeText(v) # <<>>
                                 /\ ExtractStartHourFromTimeText(v)[1] >= NoonHour)

\* [value for value in some if value in non_night_values]
AmongNonNight(some, values) ==
    SelectSeq(some, LAMBDA v : InSeq(v, NonNightValues(values)))

\* Mutant of FixedLine1: line1 is the first value, night or not.
FixedLine1FirstValue(values) == HeadOr(values, <<>>)

\* line1 of _build_fixed_time_rows.
FixedLine1(values) ==
    LET non_night_morning == AmongNonNight(MorningValues(values), values)
        non_night_afternoon == AmongNonNight(AfternoonValues(values), values)
        non_night_unknown == AmongNonNight(UnknownValues(values), values)
        l1a == HeadOr(non_night_morning, <<>>)
        l1b == IF l1a = <<>> THEN HeadOr(non_night_afternoon, l1a) ELSE l1a
        l1c == IF l1b = <<>> THEN HeadOr(non_night_unknown, l1b) ELSE l1b
    IN  IF l1c = <<>> THEN HeadOr(NonNightValues(values), l1c) ELSE l1c

\* Mutant of FixedLine2: without a night value, line2 is the first non-night
\* value in the order of the values that differs from line1.
FixedLine2InOrder(values, line1) ==
    IF NightValues(values) # <<>> THEN Head(NightValues(values))
    ELSE FirstOther(NonNightValues(values), line1)

\* line2 of _build_fixed_time_rows.
FixedLine2(values, line1) ==
    LET night_values == NightValues(values)
        non_night_afternoon == AmongNonNight(AfternoonValues(values), values)
        non_night_unknown == AmongNonNight(UnknownValues(values), values)
    IN  IF night_values # <<>> /\ Head(night_values) # <<>>
        THEN Head(night_values)
        ELSE FirstOther(non_night_afternoon \o non_night_unknown
                        \o NonNightValues(values), line1)

BuildFixedTimeRows(card) ==
    LET values == ExpandTimeValues(card.first_time) \o ExpandTimeValues(card.second_time)
        beginner_values == ExpandTimeValues(card.beginner_time)
        line1 == FixedLine1(values)
        line2 == FixedLine2(values, line1)
    IN  IF values = <<>> /\ beginner_values = <<>>
        THEN [lines |-> <<UNDECIDED_TIME, <<>>>>, beginner_time |-> <<>>]
        ELSE [lines |-> <<line1, line2>>,
              beginner_time |-> HeadOr(beginner_values, <<>>)]

\* ------------------------------------------------------------------------
\* _resolve_night_time_line_indexes (line indexes count from 0)
\* ------------------------------------------------------------------------
\* Mutant of ResolveNightTimeLineIndexes: without the rule that keeps the badge
\* on the first row when the second row holds the night time.
ResolveNightTimeLineIndexesExplicit(card, lines) ==
    LET explicit == {i - 1 : i \in {j \in 1..Len(lines) :
                         lines[j] # <<>> /\ IsNightTimeText(lines[j])}}
    IN  IF ~card.has_night THEN {}
        ELSE IF explicit # {} THEN (IF 0 \in explicit THEN {0} ELSE explicit)
        ELSE IF Len(lines) >= 2 /\ lines[2] # <<>> THEN {0}
        ELSE IF lines # <<>> /\ lines[1] # <<>> THEN {0}
        ELSE {}

ResolveNightTimeLineIndexes(card, lines) ==
    LET explicit == {i - 1 : i \in {j \in 1..Len(lines) :
                         lines[j] # <<>> /\ IsNightTimeText(lines[j])}}
    IN  IF ~card.has_night THEN {}
        ELSE IF Len(lines) >= 2 /\ lines[2] # <<>> /\ IsNightTimeText(lines[2])
        THEN {0}
        ELSE IF explicit # {} THEN (IF 0 \in explicit THEN {0} ELSE explicit)
        ELSE IF Len(lines) >= 2 /\ lines[2] # <<>> THEN {0}
        ELSE IF lines # <<>> /\ lines[1] # <<>> THEN {0}
        ELSE {}

\* ------------------------------------------------------------------------
\* _build_day_cards as one call, and _draw_day_events
\* ------------------------------------------------------------------------
Max(a, b) == IF a >= b THEN a ELSE b

Min(a, b) == IF a <= b THEN a ELSE b

\* The dict after the first n entries of the sorted list were merged.
RECURSIVE MergedUpTo(_, _)
MergedUpTo(sorted_entries, n) ==
    IF n = 0 THEN <<>>
    ELSE MergeEntryInto(MergedUpTo(sorted_entries, n - 1), sorted_entries[n])

\* _build_day_cards(events): the list is sorted into a copy, merged, backfilled
\* and the cards sorted.
BuildDayCards(day_events) ==
    LET sorted_entries == SortEntries(day_events)
        dict == MergedUpTo(sorted_entries, Len(sorted_entries))
    IN  SortCards([i \in 1..Len(dict) |->
                      BackfillCard(dict[i].card, dict[i].card.other_times)])

HIDDEN_PLUS == <<"+">>
HIDDEN_UNIT == <<"u4EF6">>

\* f"+{hidden_count}件"
HiddenMarker(hidden_count) == HIDDEN_PLUS \o Decimal(hidden_count) \o HIDDEN_UNIT

\* max_cards of _draw_day_events for a cell rect and the measured heights of
\* the day number, classroom, time and beginner label fonts.
MaxCards(rect, heights) ==
    LET start_y_min == rect.y1 + Max(50, heights.day_number + 16)
        line_h == heights.time + 3
        base_card_h == Max(90, heights.classroom + 8 + line_h * 2 + 20)
        beginner_extra_h == 6 + heights.beginner_label + line_h
        card_h == base_card_h + beginner_extra_h
        day_available_h == Max(0, rect.y2 - start_y_min - 6)
        slot_h == card_h + 6
    IN  Max(1, (day_available_h + 6) \div Max(1, slot_h))

\* Variant: one card fewer than the capacity is shown.
VisibleCardsOneLess(cards_, max_cards) ==
    SubSeq(cards_, 1, Min(Len(cards_), max_cards - 1))

\* visible_cards: cards[:max_cards], the first card when that is empty.
VisibleCards(cards_, max_cards) ==
    LET head == SubSeq(cards_, 1, Min(Len(cards_), Max(0, max_cards)))
    IN  IF head = <<>> /\ cards_ # <<>> THEN <<cards_[1]>> ELSE head

\* The time rows and night badge indexes drawn for one visible card.
DrawnCard(card) ==
    LET rows == BuildFixedTimeRows(card)
    IN  [lines |-> rows.lines, beginner_time |-> rows.beginner_time,
         night_time_indexes |-> ResolveNightTimeLineIndexes(card, rows.lines)]

\* cell_margin_bottom and card_gap of _draw_day_events
CELL_MARGIN_BOTTOM == 6

CARD_GAP == 6

\* start_y_min: the top of the card area, below the day number.
StartYMin(rect, heights) == rect.y1 + Max(50, heights.day_number + 16)

\* card_h
CardHeight(heights) ==
    Max(90, heights.classroom + 8 + (heights.time + 3) * 2 + 20)
        + 6 + heights.beginner_label + (heights.time + 3)

\* used_h of n visible cards
UsedHeight(n, heights) == n * CardHeight(heights) + Max(0, n - 1) * CARD_GAP

\* start_y of n visible cards
StartY(rect, heights, n) ==
    Max(StartYMin(rect, heights), rect.y2 - CELL_MARGIN_BOTTOM - UsedHeight(n, heights))

\* y of card_rect for each of n visible cards: y starts at start_y and grows
\* by slot_h per card.
CardTops(rect, heights, n) ==
    [i \in 1..n |-> StartY(rect, heights, n) + (i - 1) * (CardHeight(heights) + CARD_GAP)]

\* hidden_y: y after the loop over n visible cards, less 2.
HiddenY(rect, heights, n) ==
    StartY(rect, heights, n) + n * (CardHeight(heights) + CARD_GAP) - 2

\* _draw_day_events on the cards of a cell: what is drawn and where.  Nothing
\* is drawn for a day without cards; the marker is drawn at hidden_y when
\* cards are hidden.
DrawCards(cards_, rect, heights) ==
    IF cards_ = <<>>
    THEN [cards |-> <<>>, max_cards |-> 0, visible |-> <<>>, marker |-> <<>>,
          tops |-> <<>>, hidden_y |-> <<>>]
    ELSE LET max_cards == MaxCards(rect, heights)
             visible_cards == VisibleCards(cards_, max_cards)
             hidden_count == Len(cards_) - Len(visible_cards)
         IN  [cards |-> cards_, max_cards |-> max_cards,
              visible |-> [i \in 1..Len(visible_cards) |-> DrawnCard(visible_cards[i])],
              marker |-> IF hidden_count > 0 THEN HiddenMarker(hidden_count)
                         ELSE <<>>,
              tops |-> CardTops(rect, heights, Len(visible_cards)),
              hidden_y |-> IF hidden_count > 0
                           THEN <<HiddenY(rect, heights, Len(visible_cards))>>
                           ELSE <<>>]

\* _draw_day_events(events=day_events, rect=rect, ...)
DrawDayEvents(day_events, rect, heights) ==
    DrawCards(BuildDayCards(day_events), rect, heights)

\* ------------------------------------------------------------------------
\* render_monthly_schedule_image: the grid geometry and the per-day grouping
\* ------------------------------------------------------------------------
\* int(a / b) for b > 0: truncation toward zero.
TruncDiv(a, b) == IF a >= 0 THEN a \div b ELSE 0 - ((0 - a) \div b)

Margin(config) == Max(24, config.width \div 56)

HeaderBottom(config, heights) == Margin(config) - 2 + Max(heights.title, heights.month)

RowGap(config) == Max(6, config.height \div 320)

ColGap(config) == Max(8, config.width \div 192)

GridTop(config, heights) ==
    HeaderBottom(config, heights) + Max(18, config.height \div 84)
        + Max(46, config.height \div 52) + RowGap(config)

CellHeight(config, heights, row_count) ==
    LET grid_height == (config.height - Margin(config)) - GridTop(config, heights)
    IN  TruncDiv(grid_height - RowGap(config) * (row_count - 1), Max(1, row_count))

\* cell_widths: the usable width split in seven, the remainder spread over the
\* first columns.
CellWidths(config) ==
    LET usable == Max(7, (config.width - Margin(config) * 2) - ColGap(config) * 6)
    IN  [col \in 1..7 |-> usable \div 7 + (IF col - 1 < usable % 7 THEN 1 ELSE 0)]

RECURSIVE ColLeft(_, _)
ColLeft(config, col) ==
    IF col = 1 THEN Margin(config)
    ELSE ColLeft(config, col - 1) + CellWidths(config)[col - 1] + ColGap(config)

\* rect of the cell in row row_index, column col_index (both from 0).
CellRect(config, heights, row_count, row_index, col_index) ==
    LET x1 == ColLeft(config, col_index + 1)
        y1 == GridTop(config, heights)
                  + row_index * (CellHeight(config, heights, row_count) + RowGap(config))
    IN  [x1 |-> x1, y1 |-> y1, x2 |-> x1 + CellWidths(config)[col_index + 1],
         y2 |-> y1 + CellHeight(config, heights, row_count)]

\* events_by_day as a sequence of [day, list] in insertion order; list is the
\* index of a list object in the heap.
HasDay(by_day, day) == \E i \in 1..Len(by_day) : by_day[i].day = day

DayList(by_day, day) ==
    by_day[CHOOSE i \in 1..Len(by_day) : by_day[i].day = day].list

\* for entry in entries: events_by_day.setdefault(entry.day, []).append(entry),
\* from position i of the entries list heap[1] on: [heap, by_day].
RECURSIVE GroupFrom(_, _, _)
GroupFrom(heap_, by_day, i) ==
    IF i > Len(heap_[1]) THEN [heap |-> heap_, by_day |-> by_day]
    ELSE LET entry == heap_[1][i]
         IN  IF HasDay(by_day, entry.day)
             THEN GroupFrom([heap_ EXCEPT ![DayList(by_day, entry.day)] =
                                 Append(@, entry)], by_day, i + 1)
             ELSE GroupFrom(Append(heap_, <<entry>>),
                            Append(by_day, [day |-> entry.day,
                                            list |-> Len(heap_) + 1]), i + 1)

\* Variant: the caller's list is sorted as well.
ListsToSortWithEntries(by_day) == {1} \cup { by_day[i].list : i \in 1..Len(by_day) }

\* events_by_day.values(): the lists that are sorted in place.
ListsToSort(by_day) == { by_day[i].list : i \in 1..Len(by_day) }

\* for day_entries in events_by_day.values(): day_entries.sort(key=_entry_sort_key)
SortDayLists(heap_, by_day) ==
    [id \in 1..Len(heap_) |->
        IF id \in ListsToSort(by_day) THEN SortEntries(heap_[id]) ELSE heap_[id]]

\* Variant: the day's list is looked up by the day number within the month.
DayEventsByDayNumber(heap_, by_day, cell_date) ==
    IF \E i \in 1..Len(by_day) : by_day[i].day.day = cell_date.day
    THEN heap_[by_day[CHOOSE i \in 1..Len(by_day) :
                         by_day[i].day.day = cell_date.day].list]
    ELSE <<>>

\* events_by_day.get(cell_date, [])
DayEvents(heap_, by_day, cell_date) ==
    IF HasDay(by_day, cell_date) THEN heap_[DayList(by_day, cell_date)] ELSE <<>>

\* The loop over the weeks and the dates of each week: per cell its date, its
\* rect, the events handed to _draw_day_events and what that call draws.
DrawCells(year, month, config, heights, heap_, by_day) ==
    LET month_matrix == MonthDatesCalendar(year, month)
        row_count == Len(month_matrix)
    IN  [n \in 1..(7 * row_count) |->
            LET row_index == (n - 1) \div 7
                col_index == (n - 1) % 7
                cell_date == month_matrix[row_index + 1][col_index + 1]
                rect == CellRect(config, heights, row_count, row_index, col_index)
                day_events == DayEvents(heap_, by_day, cell_date)
            IN  [date |-> cell_date, rect |-> rect, events |-> day_events,
                 drawn |-> DrawDayEvents(day_events, rect, heights)]]

\* ------------------------------------------------------------------------
\* Schedule JSON: values, _to_text, _pick_text
\* ------------------------------------------------------------------------
\* A JSON value is [kind, ...]: "null", "str" (text), "int" (n), "bool" (b),
\* "list" (elems) or "dict" (items: a sequence of <<key, value>> in order).
\* Keys are names; a key that is not ASCII is named by its code points.
JNull == [kind |-> "null"]

JStr(text) == [kind |-> "str", text |-> text]

JInt(n) == [kind |-> "int", n |-> n]

JList(elems) == [kind |-> "list", elems |-> elems]

JDict(items) == [kind |-> "dict", items |-> items]

IsJDict(v) == v.kind = "dict"

IsJList(v) == v.kind = "list"

HasJKey(obj, key) == \E i \in 1..Len(obj.items) : obj.items[i][1] = key

\* obj.get(key): the value, None when the key is absent.
JGet(obj, key) ==
    IF HasJKey(obj, key)
    THEN obj.items[CHOOSE i \in 1..Len(obj.items) : obj.items[i][1] = key][2]
    ELSE JNull

\* str(raw) of a JSON value that is not None: the text of a string, the
\* digits of an integer; a list or dict prints as text that parses as no
\* date or time.
JText(v) ==
    CASE v.kind = "str" -> v.text
      [] v.kind = "int" -> Decimal(v.n)
      [] v.kind = "list" -> <<"[", "]">>
      [] v.kind = "dict" -> <<"{", "}">>
      [] v.kind = "bool" -> IF v.b THEN <<"T", "r", "u", "e">>
                            ELSE <<"F", "a", "l", "s", "e">>
      [] OTHER -> <<>>

TextNameKeys == <<"name", "title", "label", "value", "display_name", "displayName">>

RECURSIVE NonEmptyTexts(_)
NonEmptyTexts(pieces) ==
    IF pieces = <<>> THEN <<>>
    ELSE IF Head(pieces) = <<>> THEN NonEmptyTexts(Tail(pieces))
    ELSE <<Head(pieces)>> \o NonEmptyTexts(Tail(pieces))

RECURSIVE ToText(_)
RECURSIVE FirstText(_, _)
\* _to_text
ToText(v) ==
    CASE v.kind = "str" -> Strip(v.text)
      [] v.kind = "int" -> Decimal(v.n)
      [] v.kind = "bool" -> IF v.b THEN <<"T", "r", "u", "e">>
                            ELSE <<"F", "a", "l", "s", "e">>
      [] v.kind = "list" ->
             Join(NonEmptyTexts([i \in 1..Len(v.elems) |-> ToText(v.elems[i])]),
                  TIME_SEP)
      [] v.kind = "dict" -> FirstText(v, TextNameKeys)
      [] OTHER -> <<>>

\* The first non-empty _to_text(obj.get(key)) over the keys, "" when none.
FirstText(obj, keys) ==
    IF keys = <<>> THEN <<>>
    ELSE IF ToText(JGet(obj, Head(keys))) # <<>> THEN ToText(JGet(obj, Head(keys)))
    ELSE FirstText(obj, Tail(keys))

\* _pick_text
PickText(obj, keys) == FirstText(obj, keys)

\* ------------------------------------------------------------------------
\* _parse_date_ymd, _parse_json_datetime
\* ------------------------------------------------------------------------
IsDigits(s, lo, hi) ==
    Len(s) \in lo..hi /\ \A i \in 1..Len(s) : IsDigit(s[i])

\* The dates datetime.date can hold.
ValidDate(y, m, d) ==
    y \in 1..9999 /\ m \in 1..12 /\ d \in 1..MonthLen(y, m)

\* The fields of a "Y-M-D" text as a date: <<date>>, or <<>> where the text
\* has another shape or names no calendar date.  field_len is the least
\* digit count of month and day: 1 for strptime, 2 for fromisoformat.
DateFields(value, field_len) ==
    LET parts == SplitOn(value, <<"-">>)
    IN  IF Len(parts) # 3 \/ ~IsDigits(parts[1], 4, 4)
           \/ ~IsDigits(parts[2], field_len, 2) \/ ~IsDigits(parts[3], field_len, 2)
        THEN <<>>
        ELSE LET y == DigitsValue(parts[1], 0)
                 m == DigitsValue(parts[2], 0)
                 d == DigitsValue(parts[3], 0)
             IN  IF ValidDate(y, m, d) THEN <<Date(y, m, d)>> ELSE <<>>

\* The fields of an "H:M" text as a clock: <<hour, minute>>, or <<>>.
ClockFields(value, field_len) ==
    LET parts == SplitOn(value, <<":">>)
    IN  IF Len(parts) # 2 \/ ~IsDigits(parts[1], field_len, 2)
           \/ ~IsDigits(parts[2], field_len, 2)
        THEN <<>>
        ELSE LET h == DigitsValue(parts[1], 0)
                 m == DigitsValue(parts[2], 0)
             IN  IF h <= 23 /\ m <= 59 THEN <<h, m>> ELSE <<>>

\* _parse_date_ymd of the text of raw: <<date>>, or <<>> for None.
ParseDateYmd(text) ==
    LET value == Strip(text)
    IN  IF value = <<>> THEN <<>> ELSE DateFields(value, 1)

\* The zone of the schedule, Asia/Tokyo: UTC+09:00 all year.
TZ_OFFSET_MINUTES == 540

NextDay(d) ==
    IF d.day < MonthLen(d.year, d.month) THEN Date(d.year, d.month, d.day + 1)
    ELSE IF d.month < 12 THEN Date(d.year, d.month + 1, 1)
    ELSE Date(d.year + 1, 1, 1)

PrevDay(d) ==
    IF d.day > 1 THEN Date(d.year, d.month, d.day - 1)
    ELSE IF d.month > 1 THEN Date(d.year, d.month - 1, MonthLen(d.year, d.month - 1))
    ELSE Date(d.year - 1, 12, 31)

RECURSIVE ShiftDate(_, _)
ShiftDate(d, days) ==
    IF days = 0 THEN d
    ELSE IF days > 0 THEN ShiftDate(NextDay(d), days - 1)
    ELSE ShiftDate(PrevDay(d), days + 1)

\* A UTC offset "+HH:MM" or "-HH:MM" in minutes: <<minutes>>, or <<>>.
OffsetFields(text) ==
    IF Len(text) # 6 \/ text[1] \notin {"+", "-"} THEN <<>>
    ELSE LET clock == ClockFields(SubSeq(text, 2, 6), 2)
         IN  IF clock = <<>> THEN <<>>
             ELSE IF text[1] = "-" THEN <<0 - (clock[1] * 60 + clock[2])>>
             ELSE <<clock[1] * 60 + clock[2]>>

\* datetime.fromisoformat of "YYYY-MM-DDTHH:MM[:SS][+HH:MM]":
\* [date, hour, minute, offset] with offset <<>> for a naive value, or <<>>
\* where it raises ValueError.
FromIsoFormat(value) ==
    IF Len(value) < 16 \/ value[11] # "T" THEN <<>>
    ELSE LET day == DateFields(SubSeq(value, 1, 10), 2)
             clock == ClockFields(SubSeq(value, 12, 16), 2)
             rest == SubSeq(value, 17, Len(value))
             has_seconds == Len(rest) >= 3 /\ rest[1] = ":"
                            /\ IsDigits(SubSeq(rest, 2, 3), 2, 2)
                            /\ DigitsValue(SubSeq(rest, 2, 3), 0) <= 59
             zone == IF has_seconds THEN SubSeq(rest, 4, Len(rest)) ELSE rest
         IN  IF day = <<>> \/ clock = <<>> THEN <<>>
             ELSE IF zone = <<>>
                  THEN <<[date |-> day[1], hour |-> clock[1], minute |-> clock[2],
                          offset |-> <<>>]>>
             ELSE IF OffsetFields(zone) = <<>> THEN <<>>
             ELSE <<[date |-> day[1], hour |-> clock[1], minute |-> clock[2],
                     offset |-> OffsetFields(zone)]>>

NoDatetime == [day |-> <<>>, dt |-> <<>>, raised |-> FALSE]

\* parsed.astimezone(tz) if parsed.tzinfo else parsed.replace(tzinfo=tz),
\* returned as (parsed.date(), parsed).  A shift that leaves years 1..9999
\* raises OverflowError, which no handler of the module catches.
InZone(parsed) ==
    IF parsed.offset = <<>>
    THEN [day |-> <<parsed.date>>,
          dt |-> <<[date |-> parsed.date, hour |-> parsed.hour,
                    minute |-> parsed.minute]>>,
          raised |-> FALSE]
    ELSE LET total == parsed.hour * 60 + parsed.minute
                      + TZ_OFFSET_MINUTES - parsed.offset[1]
             local == ShiftDate(parsed.date, total \div (24 * 60))
             clock == total % (24 * 60)
         IN  IF local.year \notin 1..9999
             THEN [day |-> <<>>, dt |-> <<>>, raised |-> TRUE]
             ELSE [day |-> <<local>>,
                   dt |-> <<[date |-> local, hour |-> clock \div 60,
                             minute |-> clock % 60]>>,
                   raised |-> FALSE]

ReplaceChar(s, from, to) == [i \in 1..Len(s) |-> IF s[i] = from THEN to ELSE s[i]]

\* _parse_json_datetime(raw, tz, base_day) of a JSON value that is not None:
\* [day, dt, raised].  base_day is <<>> for None; today is
\* datetime.now(tz=tz).date().
ParseJsonDatetime(raw, base_day, today) ==
    LET stripped == Strip(JText(raw))
        value == IF stripped # <<>> /\ stripped[Len(stripped)] = "Z"
                 THEN SubSeq(stripped, 1, Len(stripped) - 1)
                      \o <<"+", "0", "0", ":", "0", "0">>
                 ELSE stripped
    IN  IF stripped = <<>> THEN NoDatetime
        ELSE IF Contains(value, <<"T">>)
        THEN IF FromIsoFormat(value) = <<>> THEN NoDatetime
             ELSE InZone(FromIsoFormat(value)[1])
        ELSE IF Len(value) <= 8 /\ Contains(value, <<":">>)
        THEN IF ClockFields(value, 1) = <<>> THEN NoDatetime
             ELSE LET day == IF base_day # <<>> THEN base_day[1] ELSE today
                  IN  [day |-> <<day>>,
                       dt |-> <<[date |-> day, hour |-> ClockFields(value, 1)[1],
                                 minute |-> ClockFields(value, 1)[2]]>>,
                       raised |-> FALSE]
        ELSE IF ParseDateYmd(value) # <<>>
        THEN [day |-> ParseDateYmd(value), dt |-> <<>>, raised |-> FALSE]
        ELSE IF FromIsoFormat(ReplaceChar(value, " ", "T")) = <<>> THEN NoDatetime
        ELSE InZone(FromIsoFormat(ReplaceChar(value, " ", "T"))[1])

\* ------------------------------------------------------------------------
\* _build_entry_from_dict, _build_entry_from_any_date,
\* extract_month_entries_from_json
\* ------------------------------------------------------------------------
ClassroomKeys == <<"classroom", "classroom_name", "studio", "u6559u5BA4">>

VenueKeys == <<"venue", "venue_name", "u4F1Au5834", "location">>

TitleKeys ==
    <<"title", "name", "label", "event_name", "lesson_name", "lesson", "type">>

SlotKeys == <<"slot", "time_slot", "part", "u90E8", "u6642u9593u5E2F">>

LessonIdKeys == <<"lesson_id", "lessonId">>

StartKeys ==
    <<"start", "start_at", "starts_at", "startAt", "time", "start_time",
      "first_start", "firstStart", "second_start", "secondStart",
      "beginner_start", "beginnerStart", "1u90E8u958Bu59CB", "2u90E8u958Bu59CB",
      "u521Du56DEu8005u958Bu59CB">>

EndKeys ==
    <<"end", "end_at", "ends_at", "endAt", "end_time", "first_end", "firstEnd",
      "second_end", "secondEnd", "1u90E8u7D42u4E86", "2u90E8u7D42u4E86">>

AnyDateKeys ==
    <<"date", "day", "ymd", "date_ymd", "u65E5u4ED8", "start", "start_at",
      "starts_at", "startAt">>

AnyEndKeys == <<"end", "end_at", "ends_at", "endAt">>

TITLE_PEOPLE == <<"u540D">>

TITLE_LESSON == <<"u30EC", "u30C3", "u30B9", "u30F3">>

TITLE_DEFAULT == <<"u4E88", "u5B9A">>

\* The loop over the start keys of _build_entry_from_dict: the first value
\* that parses to a datetime sets start_dt and, where it names a day, day.
RECURSIVE ScanStart(_, _, _, _)
ScanStart(item, keys, day, today) ==
    IF keys = <<>> THEN [raised |-> FALSE, dt |-> <<>>, day |-> day]
    ELSE IF JGet(item, Head(keys)) = JNull
    THEN ScanStart(item, Tail(keys), day, today)
    ELSE LET parsed == ParseJsonDatetime(JGet(item, Head(keys)), <<day>>, today)
         IN  IF parsed.raised THEN [raised |-> TRUE, dt |-> <<>>, day |-> day]
             ELSE IF parsed.dt # <<>>
             THEN [raised |-> FALSE, dt |-> parsed.dt,
                   day |-> IF parsed.day # <<>> THEN parsed.day[1] ELSE day]
             ELSE ScanStart(item, Tail(keys), day, today)

\* The loops over end keys: the first value that parses to a datetime.
RECURSIVE ScanEnd(_, _, _, _)
ScanEnd(item, keys, base_day, today) ==
    IF keys = <<>> THEN [raised |-> FALSE, dt |-> <<>>]
    ELSE IF JGet(item, Head(keys)) = JNull
    THEN ScanEnd(item, Tail(keys), base_day, today)
    ELSE LET parsed == ParseJsonDatetime(JGet(item, Head(keys)), base_day, today)
         IN  IF parsed.raised THEN [raised |-> TRUE, dt |-> <<>>]
             ELSE IF parsed.dt # <<>> THEN [raised |-> FALSE, dt |-> parsed.dt]
             ELSE ScanEnd(item, Tail(keys), base_day, today)

\* entry.start / entry.end of a datetime: the clock the renderer reads.
ClockOf(dt) == IF dt = <<>> THEN <<>> ELSE <<dt[1].hour, dt[1].minute>>

NoEntry == [raised |-> FALSE, entry |-> <<>>]

RaisedEntry == [raised |-> TRUE, entry |-> <<>>]

EntryTitle(item) ==
    IF PickText(item, TitleKeys) # <<>> THEN PickText(item, TitleKeys)
    ELSE IF IsJList(JGet(item, "participants"))
            /\ JGet(item, "participants").elems # <<>>
    THEN Decimal(Len(JGet(item, "participants").elems)) \o TITLE_PEOPLE
    ELSE IF PickText(item, LessonIdKeys) # <<>> THEN TITLE_LESSON
    ELSE TITLE_DEFAULT

\* The entry _build_entry_from_dict returns once its start and end are
\* known: [raised, entry].
EntryOf(item, start, end) ==
    IF start.raised \/ end.raised THEN RaisedEntry
    ELSE [raised |-> FALSE,
          entry |-> <<[day |-> start.day,
                       title |-> EntryTitle(item),
                       classroom |-> PickText(item, ClassroomKeys),
                       venue |-> PickText(item, VenueKeys),
                       start |-> ClockOf(start.dt),
                       end |-> ClockOf(end.dt),
                       slot |-> PickText(item, SlotKeys)]>>]

\* The end of _build_entry_from_dict: the given end_dt, else the first end
\* key that parses, read on the day of the start.
EntryFrom(item, start, end_dt, today) ==
    EntryOf(item, start,
            IF end_dt # <<>> THEN [raised |-> FALSE, dt |-> end_dt]
            ELSE ScanEnd(item, EndKeys, <<start.day>>, today))

\* _build_entry_from_dict: [raised, entry] with entry <<>> for None.
BuildEntryFromDict(item, day, start_dt, end_dt, today) ==
    IF ~IsJDict(item) THEN NoEntry
    ELSE EntryFrom(item,
                   IF start_dt # <<>>
                   THEN [raised |-> FALSE, dt |-> start_dt, day |-> day]
                   ELSE ScanStart(item, StartKeys, day, today),
                   end_dt, today)

\* The loop over date_keys of _build_entry_from_any_date: the first value
\* that names a day.
RECURSIVE ScanAnyDate(_, _, _)
ScanAnyDate(item, keys, today) ==
    IF keys = <<>> THEN NoDatetime
    ELSE IF JGet(item, Head(keys)) = JNull THEN ScanAnyDate(item, Tail(keys), today)
    ELSE LET parsed == ParseJsonDatetime(JGet(item, Head(keys)), <<>>, today)
         IN  IF parsed.raised \/ parsed.day # <<>> THEN parsed
             ELSE ScanAnyDate(item, Tail(keys), today)

\* _build_entry_from_any_date once the any-date end is scanned.
EntryUntil(item, found, end, today) ==
    IF end.raised THEN RaisedEntry
    ELSE BuildEntryFromDict(item, found.day[1], found.dt, end.dt, today)

\* _build_entry_from_any_date once the date keys are scanned: no entry
\* when none names a day.
EntryOnDay(item, found, today) ==
    IF found.raised THEN RaisedEntry
    ELSE IF found.day = <<>> THEN NoEntry
    ELSE EntryUntil(item, found, ScanEnd(item, AnyEndKeys, <<>>, today), today)

\* _build_entry_from_any_date: [raised, entry].
BuildEntryFromAnyDate(item, today) ==
    IF ~IsJDict(item) THEN NoEntry
    ELSE EntryOnDay(item, ScanAnyDate(item, AnyDateKeys, today), today)

DateInRange(day, range) ==
    ~DateLess(day, range[1]) /\ ~DateLess(range[2], day)

\* (range_start, range_end) of extract_month_entries_from_json.
ExtractRange(year, month, include_adjacent) ==
    IF include_adjacent THEN CalendarVisibleDateRange(year, month)
    ELSE <<Date(year, month, 1), Date(year, month, MonthLen(year, month))>>

\* entries.append(entry) of the dates loop: acc is [raised, out].
AppendBuilt(acc, built) ==
    [raised |-> built.raised, out |-> acc.out \o built.entry]

\* The entries one group list of the dates mapping appends, in order.
RECURSIVE GroupsEntries(_, _, _, _)
GroupsEntries(groups, day, today, acc) ==
    IF groups = <<>> \/ acc.raised THEN acc
    ELSE GroupsEntries(Tail(groups), day, today,
             AppendBuilt(acc, BuildEntryFromDict(Head(groups), day, <<>>, <<>>, today)))

\* The loop over dates.items(): keys that are no date of the range are
\* skipped; a value that is no list is built as one group.
RECURSIVE DatesEntries(_, _, _, _)
DatesEntries(items, range, today, acc) ==
    IF items = <<>> \/ acc.raised THEN acc
    ELSE LET day == ParseDateYmd(Head(items)[1])
             groups == Head(items)[2]
         IN  IF day = <<>> \/ ~DateInRange(day[1], range)
             THEN DatesEntries(Tail(items), range, today, acc)
             ELSE DatesEntries(Tail(items), range, today,
                      GroupsEntries(IF IsJList(groups) THEN groups.elems
                                    ELSE <<groups>>, day[1], today, acc))

\* entries.append(entry) of the flat loop: only an entry of the range.
AppendInRange(acc, built, range) ==
    [raised |-> built.raised,
     out |-> IF built.entry # <<>> /\ DateInRange(built.entry[1].day, range)
             THEN acc.out \o built.entry ELSE acc.out]

\* The loop over the items of one flat list: entries of the range.
RECURSIVE ListEntries(_, _, _, _)
ListEntries(values, range, today, acc) ==
    IF values = <<>> \/ acc.raised THEN acc
    ELSE ListEntries(Tail(values), range, today,
             AppendInRange(acc, BuildEntryFromAnyDate(Head(values), today), range))

LIST_KEYS == <<"entries", "schedules", "lessons", "items">>

\* The loop over list_keys: stops after the first key that yields an entry.
RECURSIVE FlatEntries(_, _, _, _, _)
FlatEntries(payload, keys, range, today, acc) ==
    IF keys = <<>> \/ acc.raised \/ acc.out # <<>> THEN acc
    ELSE IF ~IsJList(JGet(payload, Head(keys)))
    THEN FlatEntries(payload, Tail(keys), range, today, acc)
    ELSE FlatEntries(payload, Tail(keys), range, today,
             ListEntries(JGet(payload, Head(keys)).elems, range, today, acc))

NoEntries == [raised |-> FALSE, out |-> <<>>]

\* The payload of extract_month_entries_from_json: data["data"] when that
\* is a dict, else data.
PayloadOf(data) ==
    IF IsJDict(JGet(data, "data")) THEN JGet(data, "data") ELSE data

\* The entries of the dates mapping of the payload.
FromDates(payload, range, today) ==
    IF IsJDict(JGet(payload, "dates"))
    THEN DatesEntries(JGet(payload, "dates").items, range, today, NoEntries)
    ELSE NoEntries

\* The flat lists are read only when the dates mapping gave no entry.
FoundEntries(payload, range, today, from_dates) ==
    IF from_dates.raised \/ from_dates.out # <<>> THEN from_dates
    ELSE FlatEntries(payload, LIST_KEYS, range, today, NoEntries)

\* return sorted(entries, key=_entry_sort_key)
SortedResult(found) ==
    IF found.raised THEN [raised |-> TRUE, out |-> <<>>]
    ELSE [raised |-> FALSE, out |-> SortEntries(found.out)]

ExtractFrom(payload, range, today) ==
    SortedResult(FoundEntries(payload, range, today, FromDates(payload, range, today)))

\* extract_month_entries_from_json(data, year, month, include_adjacent) in
\* the zone Asia/Tokyo: [raised, out]; out is the returned list, raised
\* tells that an exception left the function.
ExtractMonthEntriesFromJson(data, year, month, include_adjacent, today) ==
    ExtractFrom(PayloadOf(data), ExtractRange(year, month, include_adjacent), today)

\* ------------------------------------------------------------------------
\* MonthlyScheduleNotionClient: fetch_month_entries, _parse_page,
\* _parse_notion_datetime
\* ------------------------------------------------------------------------
RaisedDatetime == [day |-> <<>>, dt |-> <<>>, raised |-> TRUE]

\* _parse_notion_datetime(value, tz): [day, dt, raised]; value is <<>> for
\* None.  datetime.fromisoformat raises ValueError on a text that is no ISO
\* date, and nothing catches it.
ParseNotionDatetime(text) ==
    LET stripped == Strip(text)
        value == IF stripped # <<>> /\ stripped[Len(stripped)] = "Z"
                 THEN SubSeq(stripped, 1, Len(stripped) - 1)
                      \o <<"+", "0", "0", ":", "0", "0">>
                 ELSE stripped
    IN  IF stripped = <<>> THEN NoDatetime
        ELSE IF Contains(stripped, <<"T">>)
        THEN IF FromIsoFormat(value) = <<>> THEN RaisedDatetime
             ELSE InZone(FromIsoFormat(value)[1])
        ELSE IF DateFields(value, 2) = <<>> THEN RaisedDatetime
        ELSE [day |-> DateFields(value, 2), dt |-> <<>>, raised |-> FALSE]

\* The ScheduleEntry of _parse_page once the start and end of the date
\* property are parsed: [raised, entry].  A page is [date_start, date_end,
\* title, classroom, venue]: the start and end of its date property (<<>>
\* when missing) and the texts read from its title, classroom and venue
\* properties.
PageEntry(page, start, end) ==
    IF start.raised THEN RaisedEntry
    ELSE IF start.day = <<>> THEN NoEntry
    ELSE IF end.raised THEN RaisedEntry
    ELSE [raised |-> FALSE,
          entry |-> <<[day |-> start.day[1],
                       title |-> page.title,
                       classroom |-> page.classroom,
                       venue |-> page.venue,
                       start |-> ClockOf(start.dt),
                       end |-> ClockOf(end.dt),
                       slot |-> NormalizeSlot(<<>>, page.title)]>>]

\* _parse_page(page, tz): [raised, entry] with entry <<>> for None.
ParsePage(page) ==
    IF page.date_start = <<>> THEN NoEntry
    ELSE PageEntry(page, ParseNotionDatetime(page.date_start),
                   ParseNotionDatetime(page.date_end))

\* The loop over response.get("results", []): the entries of the range are
\* appended; acc is [raised, out].
RECURSIVE AppendResults(_, _, _)
AppendResults(results, range, acc) ==
    IF results = <<>> \/ acc.raised THEN acc
    ELSE AppendResults(Tail(results), range,
                       AppendInRange(acc, ParsePage(Head(results)), range))

\* The cursor that names page k of a query result.
PageCursor(k) == <<"c">> \o Decimal(k)

\* self.client.request(...) on the query: the first page of the result when
\* the payload has no start_cursor, else the page the cursor names.  A
\* response is [results, has_more, next_cursor].
QueryResponse(pages, cursor) ==
    IF cursor = <<>> THEN pages[1]
    ELSE pages[CHOOSE k \in 1..Len(pages) : PageCursor(k) = cursor]

\* Variant: the loop ends after every response.
FetchIterationOnePage(entries, cursor, response, range) ==
    [entries |-> AppendResults(response.results, range,
                               [raised |-> FALSE, out |-> entries]).out,
     raised |-> AppendResults(response.results, range,
                              [raised |-> FALSE, out |-> entries]).raised,
     done |-> TRUE,
     start_cursor |-> cursor]

\* One pass of the while loop after the request: the entries, whether the
\* loop ends, and start_cursor for the next pass.
FetchIteration(entries, cursor, response, range) ==
    [entries |-> AppendResults(response.results, range,
                               [raised |-> FALSE, out |-> entries]).out,
     raised |-> AppendResults(response.results, range,
                              [raised |-> FALSE, out |-> entries]).raised,
     done |-> ~response.has_more,
     start_cursor |-> IF response.has_more THEN response.next_cursor ELSE cursor]

\* ------------------------------------------------------------------------
\* _resolve_required_font_paths, _resolve_single_font, _download_font,
\* _is_valid_font_path
\* ------------------------------------------------------------------------
\* A path is a sequence of parts (directory, file name); a blank is the part " ".
\* The file system is [fonts, files, dirs]: the paths that are loadable font
\* files, the paths that are files, the paths that are directories.
FontRoles == <<"jp_regular", "jp_bold", "num_regular", "num_bold">>

FontFileName(role) ==
    CASE role = "jp_regular" -> "ZenKakuGothicNew-Regular.ttf"
      [] role = "jp_bold" -> "ZenKakuGothicNew-Bold.ttf"
      [] role = "num_regular" -> "CourierPrime-Regular.ttf"
      [] role = "num_bold" -> "CourierPrime-Bold.ttf"

FontLabel(role) ==
    CASE role = "jp_regular" -> "Zen Kaku Gothic New Regular"
      [] role = "jp_bold" -> "Zen Kaku Gothic New Bold"
      [] role = "num_regular" -> "Courier Prime Regular"
      [] role = "num_bold" -> "Courier Prime Bold"

IsZenRole(role) == role \in {"jp_regular", "jp_bold"}

\* The fixed install paths of a role, in the order of the candidate list.
OsFontPaths(role) ==
    << << IF IsZenRole(role) THEN "/usr/share/fonts/truetype/zen-kaku-gothic-new"
          ELSE "/usr/share/fonts/truetype/courier-prime", FontFileName(role) >>,
       << IF IsZenRole(role) THEN "/usr/share/fonts/truetype/zenkakugothicnew"
          ELSE "/usr/share/fonts/truetype/courierprime", FontFileName(role) >>,
       << "/usr/local/share/fonts", FontFileName(role) >>,
       << "~/.local/share/fonts", FontFileName(role) >>,
       << "~/Library/Fonts", FontFileName(role) >> >>

DEFAULT_CACHE_DIR == <<"~/.cache/media-platform-fonts/monthly_schedule">>

CacheDir(config) ==
    IF config.font_cache_dir # <<>> THEN config.font_cache_dir ELSE DEFAULT_CACHE_DIR

ExplicitFontPath(config, role) ==
    CASE role = "jp_regular" -> config.font_jp_regular_path
      [] role = "jp_bold" -> config.font_jp_bold_path
      [] role = "num_regular" -> config.font_num_regular_path
      [] role = "num_bold" -> config.font_num_bold_path

\* base_files.get(role, ""): the font_path itself when it is a file, the role's
\* file inside it when it is a directory, nothing otherwise.
BaseFile(config, fs, role) ==
    IF config.font_path = <<>> THEN <<>>
    ELSE IF config.font_path \in fs.files THEN config.font_path
    ELSE IF config.font_path \in fs.dirs
         THEN config.font_path \o <<FontFileName(role)>>
    ELSE <<>>

\* Variant: the cache file is examined before the explicit path.
FontCandidatesCacheFirst(config, fs, role) ==
    <<CacheDir(config) \o <<FontFileName(role)>>, ExplicitFontPath(config, role),
      BaseFile(config, fs, role)>> \o OsFontPaths(role)

\* [explicit, *candidates] of a role.
FontCandidates(config, fs, role) ==
    <<ExplicitFontPath(config, role), BaseFile(config, fs, role),
      CacheDir(config) \o <<FontFileName(role)>>>> \o OsFontPaths(role)

IsValidFontPath(fs, path) == path \in fs.fonts

IoEvent(op, path) == [op |-> op, path |-> path]

\* The candidate loop of _resolve_single_font: [found, path, log].
RECURSIVE ExamineCandidates(_, _, _)
ExamineCandidates(candidates, fs, log) ==
    IF candidates = <<>> THEN [found |-> FALSE, path |-> <<>>, log |-> log]
    ELSE LET value == Strip(Head(candidates))
         IN  IF value = <<>> THEN ExamineCandidates(Tail(candidates), fs, log)
             ELSE IF IsValidFontPath(fs, value)
                  THEN [found |-> TRUE, path |-> value,
                        log |-> Append(log, IoEvent("validate", value))]
             ELSE ExamineCandidates(Tail(candidates), fs,
                                    Append(log, IoEvent("validate", value)))

\* _download_font: the request fails or returns an empty body (raises, nothing
\* written), or the body is written to the target: a font or not a font.
DownloadFont(fs, net, target) ==
    CASE net = "font" -> [fonts |-> fs.fonts \cup {target},
                          files |-> fs.files \cup {target}, dirs |-> fs.dirs]
      [] net = "garbage" -> [fonts |-> fs.fonts \ {target},
                             files |-> fs.files \cup {target}, dirs |-> fs.dirs]
      [] OTHER -> fs

\* Variant: a download that failed is tried a second time before the path is
\* validated.
ResolveSingleFontRetry(candidates, download_path, fs, net, log) ==
    LET seen == ExamineCandidates(candidates, fs, log)
    IN  IF seen.found
        THEN [raised |-> FALSE, path |-> seen.path, log |-> seen.log, fs |-> fs]
        ELSE LET after == DownloadFont(fs, net, download_path)
                 log2 == seen.log \o <<IoEvent("download", download_path),
                                       IoEvent("download", download_path),
                                       IoEvent("validate", download_path)>>
             IN  IF IsValidFontPath(after, download_path)
                 THEN [raised |-> FALSE, path |-> download_path, log |-> log2,
                       fs |-> after]
                 ELSE [raised |-> TRUE, path |-> <<>>, log |-> log2, fs |-> after]

\* _resolve_single_font: [raised, path, log, fs].
ResolveSingleFont(candidates, download_path, fs, net, log) ==
    LET seen == ExamineCandidates(candidates, fs, log)
    IN  IF seen.found
        THEN [raised |-> FALSE, path |-> seen.path, log |-> seen.log, fs |-> fs]
        ELSE LET after == DownloadFont(fs, net, download_path)
                 log2 == seen.log \o <<IoEvent("download", download_path),
                                       IoEvent("validate", download_path)>>
             IN  IF IsValidFontPath(after, download_path)
                 THEN [raised |-> FALSE, path |-> download_path, log |-> log2,
                       fs |-> after]
                 ELSE [raised |-> TRUE, path |-> <<>>, log |-> log2, fs |-> after]

\* The four _resolve_single_font calls, in order; a raise ends the sequence.
RECURSIVE ResolveRoles(_, _, _, _, _, _)
ResolveRoles(roles, config, base_fs, fs, net, acc) ==
    IF roles = <<>> \/ acc.raised THEN [acc EXCEPT !.fs = fs]
    ELSE LET role == Head(roles)
             one == ResolveSingleFont(FontCandidates(config, base_fs, role),
                                      CacheDir(config) \o <<FontFileName(role)>>,
                                      fs, net, acc.log)
         IN  ResolveRoles(Tail(roles), config, base_fs, one.fs, net,
                 [raised |-> one.raised,
                  failed |-> IF one.raised THEN <<role>> ELSE <<>>,
                  paths |-> IF one.raised THEN acc.paths
                            ELSE Append(acc.paths, one.path),
                  log |-> one.log, fs |-> one.fs])

\* _resolve_required_font_paths: [raised, failed, paths, log, fs]; paths holds
\* the four resolved paths in the order of FontRoles.
ResolveRequiredFontPaths(config, fs, net) ==
    LET made == [fs EXCEPT !.dirs = @ \cup {CacheDir(config)}]
    IN  ResolveRoles(FontRoles, config, made, made, net,
            [raised |-> FALSE, failed |-> <<>>, paths |-> <<>>,
             log |-> <<IoEvent("mkdir", CacheDir(config))>>
                     \o (IF config.font_path # <<>>
                         THEN <<IoEvent("stat", config.font_path)>> ELSE <<>>),
             fs |-> made])

\* ------------------------------------------------------------------------
\* _split_text_runs, _is_ascii_char
\* ------------------------------------------------------------------------
\* The last character ASCII_RUN_RE matches.
ASCII_LAST == "u007F"

\* _is_ascii_char
IsAsciiChar(ch) == Ord(ch) <= Ord(ASCII_LAST)

\* The loop of _split_text_runs over value[1:], then the append after it.
\* A run is <<chunk, is_ascii>>.
RECURSIVE SplitRunsFrom(_, _, _, _)
SplitRunsFrom(rest, done, current, current_ascii) ==
    IF rest = <<>> THEN Append(done, <<current, current_ascii>>)
    ELSE IF IsAsciiChar(Head(rest)) = current_ascii
    THEN SplitRunsFrom(Tail(rest), done, Append(current, Head(rest)), current_ascii)
    ELSE SplitRunsFrom(Tail(rest), Append(done, <<current, current_ascii>>),
                       <<Head(rest)>>, IsAsciiChar(Head(rest)))

\* Variant: every character is a run of its own.
SplitTextRunsPerChar(text) ==
    [i \in 1..Len(text) |-> << <<text[i]>>, IsAsciiChar(text[i]) >>]

\* _split_text_runs
SplitTextRuns(text) ==
    IF text = <<>> THEN <<>>
    ELSE SplitRunsFrom(Tail(text), <<>>, <<Head(text)>>, IsAsciiChar(Head(text)))

\* ------------------------------------------------------------------------
\* _scale_font_set, _fit_font_set_to_width
\* ------------------------------------------------------------------------
\* Scales are counted in hundredths: 96 is 0.96.  A font set is [jp_size,
\* num_size, num_baseline_offset, num_line_height, scalable]; scalable tells
\* whether the fonts have a size and font_variant (FreeType fonts do).
FIRST_SCALE == 96

SCALE_STEP == 4

MIN_SCALE == 62

\* int(round(n * scale)) for a scale of the sequence; n * scale is never
\* halfway between two integers there.
RoundScaled(n, scale) == (n * scale + 50) \div 100

\* The width the text is drawn with: a text is [jp, ascii], the counts of its
\* full-width and of its ASCII characters; a full-width character is as wide
\* as the size of jp_font, an ASCII one 0.6 of the size of num_font.
MixedTextWidth(text, fonts) ==
    text.jp * fonts.jp_size + (text.ascii * fonts.num_size * 6) \div 10

\* _scale_font_set: [fonts, same]; same tells that the result is the
\* argument itself.
ScaleFontSet(fonts, scale) ==
    IF scale >= 100 \/ ~fonts.scalable THEN [fonts |-> fonts, same |-> TRUE]
    ELSE [fonts |-> [jp_size |-> Max(1, RoundScaled(fonts.jp_size, scale)),
                     num_size |-> Max(1, RoundScaled(fonts.num_size, scale)),
                     num_baseline_offset |-> RoundScaled(fonts.num_baseline_offset, scale),
                     num_line_height |-> Max(1, RoundScaled(fonts.num_line_height, scale)),
                     scalable |-> fonts.scalable],
          same |-> FALSE]

\* Variant: when the text fits at no scale of the loop, the given set is
\* returned instead of the last scaled one.
FitFromScaleKeepGiven(text, fonts, max_width, scale, fitted) ==
    LET fit(sc) == MixedTextWidth(text, ScaleFontSet(fonts, sc).fonts) <= max_width
        scales == { sc \in MIN_SCALE..scale : (scale - sc) % SCALE_STEP = 0 }
    IN  IF ~fonts.scalable \/ ~\E sc \in scales : fit(sc)
        THEN [fonts |-> fonts, same |-> TRUE, scale |-> 100]
        ELSE LET first == CHOOSE sc \in scales :
                             fit(sc) /\ \A t \in scales : fit(t) => t <= sc
             IN  [fonts |-> ScaleFontSet(fonts, first).fonts, same |-> FALSE,
                  scale |-> first]

\* Variant: the loop goes one step below the floor.
FitFromScaleBelowFloor(text, fonts, max_width, scale, fitted) ==
    LET fit(sc) == MixedTextWidth(text, ScaleFontSet(fonts, sc).fonts) <= max_width
        scales == { sc \in (MIN_SCALE - SCALE_STEP + 1)..scale :
                       (scale - sc) % SCALE_STEP = 0 }
        last == CHOOSE sc \in scales :
                    (fit(sc) \/ \A t \in scales : t >= sc)
                        /\ \A t \in scales : t > sc => ~fit(t)
    IN  IF ~fonts.scalable THEN [fonts |-> fonts, same |-> TRUE, scale |-> 100]
        ELSE [fonts |-> ScaleFontSet(fonts, last).fonts, same |-> FALSE, scale |-> last]

\* The while loop of _fit_font_set_to_width from the given scale on:
\* [fonts, same, scale] of the returned set.
RECURSIVE FitFromScale(_, _, _, _, _)
FitFromScale(text, fonts, max_width, scale, fitted) ==
    IF scale < MIN_SCALE THEN fitted
    ELSE LET candidate == ScaleFontSet(fonts, scale)
             tried == [fonts |-> candidate.fonts, same |-> candidate.same,
                       scale |-> IF candidate.same THEN 100 ELSE scale]
         IN  IF candidate.same /\ scale < 95 THEN fitted
             ELSE IF MixedTextWidth(text, candidate.fonts) <= max_width THEN tried
             ELSE FitFromScale(text, fonts, max_width, scale - SCALE_STEP, tried)

\* Variant: the loop goes on below the floor until the text fits.
FitFontSetToWidthNoFloor(text, fonts, max_width) ==
    LET fit(scale) == MixedTextWidth(text, ScaleFontSet(fonts, scale).fonts) <= max_width
        scales == { FIRST_SCALE - SCALE_STEP * k : k \in 0..23 }
    IN  IF MixedTextWidth(text, fonts) <= max_width \/ ~fonts.scalable
           \/ ~\E sc \in scales : fit(sc)
        THEN [fonts |-> fonts, same |-> TRUE, scale |-> 100]
        ELSE LET first == CHOOSE sc \in scales :
                             fit(sc) /\ \A t \in scales : fit(t) => t <= sc
             IN  [fonts |-> ScaleFontSet(fonts, first).fonts, same |-> FALSE,
                  scale |-> first]

\* _fit_font_set_to_width with the default min_scale.
FitFontSetToWidth(text, fonts, max_width) ==
    IF MixedTextWidth(text, fonts) <= max_width
    THEN [fonts |-> fonts, same |-> TRUE, scale |-> 100]
    ELSE FitFromScale(text, fonts, max_width, FIRST_SCALE,
                      [fonts |-> fonts, same |-> TRUE, scale |-> 100])

\* ------------------------------------------------------------------------
\* post_monthly_schedule: the loop over the target months
\* ------------------------------------------------------------------------
\* len(target_months)
TargetMonthCount == 3

\* _shift_year_month
ShiftYearMonth(base_year, base_month, add) ==
    LET total == base_year * 12 + (base_month - 1) + add
    IN  <<total \div 12, (total % 12) + 1>>

\* caption_entries: the entries of the target month itself.
RECURSIVE CaptionEntries(_, _, _)
CaptionEntries(render_entries, y, m) ==
    IF render_entries = <<>> THEN <<>>
    ELSE IF Head(render_entries).day.year = y /\ Head(render_entries).day.month = m
    THEN <<Head(render_entries)>> \o CaptionEntries(Tail(render_entries), y, m)
    ELSE CaptionEntries(Tail(render_entries), y, m)

\* ------------------------------------------------------------------------
\* State
\* ------------------------------------------------------------------------
VARIABLES
    events,     \* the list handed to _build_day_cards (never written)
    pc,         \* position of the running call
    queue,      \* sorted(events, key=_entry_sort_key): the entries still to merge
    merged,     \* the sorted entries already merged, in order
    by_key,     \* the dict of cards by classroom key, in insertion order
    cards,      \* list(by_key.values()), then backfilled, then sorted
    drawn,      \* per drawn card: its lines, beginner_time and night indexes
    slot_in,    \* arguments of a direct _normalize_slot call: [slot, title]
    slot_out,   \* its result: <<result>>, or <<>> before the call
    texts_in,   \* time texts still to merge by direct _merge_time_text calls
    texts_done, \* time texts already merged, in order
    field,      \* the card field the texts are merged into
    loads,          \* what load_month_entries returns for each target month
    first_target,   \* <<year, month>> of the first target month of the process
    month_index,    \* position of the loop over the target months
    target,         \* <<year, month>> of the running render
    config,         \* the ScheduleRenderConfig
    metrics,        \* the measured heights of the loaded font sets
    fs,             \* the file system: [fonts, files, dirs]
    net,            \* what a font download does
    cell_rect,      \* the rect of a direct _draw_day_events call
    heap,           \* the list objects: heap[1] is the entries list of the
                    \* caller, the others are the per-day lists
    entries_before, \* the caller's entries list as it was when render was called
    events_by_day,  \* the dict from date to per-day list, in insertion order
    cells,          \* what the render drew, cell by cell
    font_paths,     \* the font paths resolved by the running render
    io_logs,        \* per render call, its file system and network accesses
    images,         \* the targets of the images returned so far
    data,              \* the schedule JSON handed to the extraction
    include_adjacent,  \* its include_adjacent argument
    today,             \* datetime.now(tz).date() during the extraction
    extracted,         \* its outcome: <<[raised, out]>>, or <<>> before the call
    fit_in,     \* arguments of a direct _fit_font_set_to_width call
    fit_out,    \* the results of the calls made so far, in order
    font_role,  \* the role of a direct _resolve_single_font call
    split_text, \* the text of a direct _split_text_runs call
    runs,       \* the list it returns
    notion,        \* the responses of the database query, page by page
    start_cursor,  \* start_cursor of fetch_month_entries, <<>> for None
    requests,      \* the start_cursor of every request sent, in order
    fetched        \* the entries list of fetch_month_entries

buildVars == <<events, queue, merged, by_key, cards, drawn, slot_in, slot_out,
               texts_in, texts_done, field>>

\* What a render reads and never writes.
renderInputs == <<loads, first_target, config, metrics, net, cell_rect, entries_before>>

renderVars == <<renderInputs, month_index, target, fs, heap, events_by_day, cells,
                font_paths, io_logs, images>>

extractVars == <<data, include_adjacent, today, extracted>>

fitVars == <<fit_in, fit_out>>

\* The state of the direct calls of the text and layout helpers.
fetchVars == <<notion, start_cursor, requests, fetched>>

lateVars == <<split_text, runs, fetchVars>>

callVars == <<extractVars, fitVars, font_role, lateVars>>

vars == <<pc, buildVars, renderVars, callVars>>

\* ------------------------------------------------------------------------
\* Inputs
\* ------------------------------------------------------------------------
MaxEvents == 3
MaxRowValues == 2
MaxSlotParts == 2
MaxMerges == 3
MaxRenderEntries == 2
MaxCellCards == 5

\* The most records under one key of the dates mapping.
MaxGroupItems == 2

\* The most items in one flat list.
MaxListItems == 1

MaxClockItems == 2

\* The most full-width and the most ASCII characters of a fitted text.
MaxJpChars == 2

MaxAsciiChars == 5

\* The most _fit_font_set_to_width calls of one shrinking sequence of widths.
MaxFits == 3

\* The most characters of a text split into runs.
MaxRunChars == 4

\* The most pages of one query result.
MaxPages == 3

CLASS_A == <<"A">>
CLASS_A_PADDED == <<" ", "A", " ">>
CLASS_B == <<"B">>
VENUE_X == <<"X">>
VENUE_X_PADDED == <<"X", " ">>
VENUE_Y == <<"Y">>

NoTime == <<>>
Range(sh, sm, eh, em) == << <<sh, sm>>, <<eh, em>> >>

\* (start, end) pairs:  9:00-13:00, 12:00-16:00, 12:00-14:00.
TimeRanges == {Range(9, 0, 13, 0), Range(12, 0, 16, 0), Range(12, 0, 14, 0)}

SlotHints == {SLOT_FIRST, SLOT_SECOND, SLOT_BEGINNER, <<>>}

EntriesOf(classrooms, venues, ranges, slots, titles) ==
    { [day |-> Date(2026, 2, 26), title |-> t, classroom |-> c, venue |-> v,
       start |-> r[1], end |-> r[2], slot |-> s] :
          c \in classrooms, v \in venues, r \in ranges, s \in slots, t \in titles }

\* One classroom: every slot with every time range.
TimeEntries == EntriesOf({CLASS_A}, {<<>>}, TimeRanges, SlotHints, {<<>>})

\* Several spellings of the classroom, unclassified entries of two time ranges.
GroupEntries ==
    EntriesOf({CLASS_A, CLASS_A_PADDED, <<>>, UNDECIDED_KEY, CLASS_B}, {<<>>},
              {Range(9, 0, 13, 0), Range(12, 0, 16, 0)}, {<<>>}, {<<>>})

\* Two classrooms, every venue spelling, one time range.
VenueEntries ==
    EntriesOf({CLASS_A, CLASS_B},
              {<<>>, VENUE_X, VENUE_X_PADDED, VENUE_Y, MULTI_VENUE},
              {Range(12, 0, 16, 0)}, {SLOT_FIRST}, {<<>>})

\* Two classrooms; entries that are night by none or by exactly one of the
\* start hour, the end hour, the slot text and the title, and entries just below
\* the two hours or with the English word in the title.
NightEntries ==
    EntriesOf({CLASS_A}, {<<>>}, {Range(16, 59, 19, 59)}, {<<>>},
              {<<>>, NIGHT_MARK, NIGHT_WORD})
    \cup EntriesOf({CLASS_A}, {<<>>}, {Range(16, 59, 19, 59)},
                   {<<"N", "i", "g", "h", "t">>, NIGHT_MARK}, {<<>>})
    \cup EntriesOf({CLASS_A}, {<<>>},
                   {Range(17, 0, 19, 0), Range(13, 0, 20, 0), <<NoTime, NoTime>>},
                   {<<>>}, {<<>>})
    \cup EntriesOf({CLASS_B}, {<<>>}, {Range(16, 59, 19, 59), Range(17, 0, 19, 0)},
                   {<<>>}, {<<>>})

\* One classroom with a morning range, ranges that start or end in the
\* evening, entries with an end and no start, with and without a slot, and
\* one entry of a second classroom.
BadgeEntries ==
    EntriesOf({CLASS_A}, {<<>>},
              {Range(9, 0, 13, 0), Range(17, 0, 19, 0), Range(13, 0, 20, 0),
               <<NoTime, <<17, 30>>>>, <<NoTime, <<16, 30>>>>},
              {<<>>, SLOT_SECOND}, {<<>>})
    \cup EntriesOf({CLASS_B}, {<<>>}, {Range(12, 0, 16, 0)}, {<<>>}, {<<>>})

\* Two classrooms; ranges that start at 9:00 and at 8:30, an entry that has
\* an end (8:00) and no start, and an entry without times; every entry in
\* the first slot.
OrderEntries ==
    EntriesOf({CLASS_A, CLASS_B}, {<<>>},
              {Range(9, 0, 13, 0), Range(8, 30, 12, 0), <<NoTime, <<8, 0>>>>,
               <<NoTime, NoTime>>},
              {SLOT_FIRST}, {<<>>})

\* The dates on which the extraction runs: in the month, in the visible
\* range only, and outside both.
ClockDays == { Date(2026, 2, 10), Date(2026, 1, 27), Date(2026, 6, 10) }

SeqsUpTo(S, n) == UNION { [1..k -> S] : k \in 0..n }

SeqSet(q) == { q[i] : i \in 1..Len(q) }

\* Sequences without repetition.
DistinctSeqsUpTo(S, n) ==
    { q \in SeqsUpTo(S, n) : \A i, j \in 1..Len(q) : i # j => q[i] # q[j] }

\* Formatted time ranges in the order _entry_sort_key gives their entries:
\* morning, afternoon, night, undecided (no start sorts last).
RowTexts ==
    << FormatTimeRange([start |-> <<9, 0>>, end |-> <<13, 0>>]),
       FormatTimeRange([start |-> <<12, 0>>, end |-> <<16, 0>>]),
       FormatTimeRange([start |-> <<17, 30>>, end |-> <<20, 0>>]),
       FormatTimeRange([start |-> NoTime, end |-> NoTime]) >>

\* The values one field can hold: texts merged in the order of the sorted entries.
RowFields ==
    { Join([i \in 1..Len(q) |-> RowTexts[q[i]]], TIME_SEP) :
        q \in { r \in SeqsUpTo(1..Len(RowTexts), MaxRowValues) :
                  \A i, j \in 1..Len(r) : i < j => r[i] < r[j] } }

\* Cards handed to the drawing loop: the cards _build_day_cards can return for
\* one classroom (a night time range sets has_night), and the card with no
\* time value.
RowCards ==
    { c \in [classroom : {CLASS_A}, venue : {<<>>}, first_time : RowFields,
             second_time : RowFields,
             beginner_time : {<<>>, FormatTimeRange([start |-> <<12, 0>>,
                                                     end |-> <<14, 0>>])},
             has_night : BOOLEAN, other_times : {<<>>}] :
        \/ c.has_night
        \/ ~\E v \in SeqSet(ExpandTimeValues(c.first_time))
                     \cup SeqSet(ExpandTimeValues(c.second_time)) : IsNightTimeText(v) }

\* Formatted time ranges with one or both bounds missing and a padded hour.
MergeTexts ==
    { FormatTimeRange([start |-> r[1], end |-> r[2]]) :
        r \in {Range(9, 0, 13, 0), Range(12, 0, 16, 0), <<<<12, 0>>, NoTime>>,
               <<NoTime, <<9, 0>>>>, <<NoTime, NoTime>>} }

\* Slot hints and titles: up to MaxSlotParts fragments, concatenated.
SlotFragments ==
    { SLOT_BEGINNER, SLOT_SECOND, <<"F", "i", "r", "s", "t">>, JP_SHOKAI, JP_2BU,
      JP_ICHIBU }

RECURSIVE Concat(_)
Concat(parts) == IF parts = <<>> THEN <<>> ELSE Head(parts) \o Concat(Tail(parts))

SlotTexts == { Concat(q) : q \in SeqsUpTo(SlotFragments, MaxSlotParts) }

\* Entries of four dates around February 2026: 26 January and 1 March are in
\* the grid of February, 2 March is not; 26 February and 1 March are in the
\* grid of March.
RenderEntries ==
    { [day |-> x[1], title |-> <<>>, classroom |-> x[2], venue |-> <<>>,
       start |-> x[3][1], end |-> x[3][2], slot |-> SLOT_FIRST] :
          x \in { <<Date(2026, 1, 26), CLASS_A, Range(9, 0, 13, 0)>>,
                  <<Date(2026, 2, 26), CLASS_A, Range(12, 0, 16, 0)>>,
                  <<Date(2026, 2, 26), CLASS_A, Range(9, 0, 13, 0)>>,
                  <<Date(2026, 2, 26), CLASS_B, Range(9, 0, 13, 0)>>,
                  <<Date(2026, 3, 1), CLASS_A, Range(9, 0, 13, 0)>>,
                  <<Date(2026, 3, 2), CLASS_A, Range(9, 0, 13, 0)>> } }

RenderTargets == {<<2026, 2>>, <<2026, 3>>}

NoFontPaths ==
    [font_path |-> <<>>, font_cache_dir |-> <<>>, font_jp_regular_path |-> <<>>,
     font_jp_bold_path |-> <<>>, font_num_regular_path |-> <<>>,
     font_num_bold_path |-> <<>>]

\* ScheduleRenderConfig with the given size and font settings.
ConfigOf(width, height, fonts) ==
    [width |-> width, height |-> height, font_path |-> fonts.font_path,
     font_cache_dir |-> fonts.font_cache_dir,
     font_jp_regular_path |-> fonts.font_jp_regular_path,
     font_jp_bold_path |-> fonts.font_jp_bold_path,
     font_num_regular_path |-> fonts.font_num_regular_path,
     font_num_bold_path |-> fonts.font_num_bold_path]

\* The default size, a tall image (two cards fit a cell) and a tiny one.
RenderConfigs ==
    {ConfigOf(1536, 2048, NoFontPaths), ConfigOf(1536, 4096, NoFontPaths),
     ConfigOf(200, 100, NoFontPaths)}

\* Heights of the title, month, day number, classroom, time, beginner label
\* and hidden-count font sets, as measured.
RenderMetrics ==
    {[title |-> 100, month |-> 88, day_number |-> 55, classroom |-> 45,
      time |-> 32, beginner_label |-> 27, hidden |-> 17]}

\* The cards of a day with n classrooms, as _build_day_cards returns them.
CellCards(n) ==
    [i \in 1..n |->
        [NewDayCard(Decimal(i), <<>>) EXCEPT
            !.first_time = FormatTimeRange([start |-> <<9, 0>>, end |-> <<13, 0>>])]]

\* Cell rects from a cell that ends above its top to one with room for five
\* cards of the first metrics.
CellRects ==
    { [x1 |-> 27, y1 |-> y1, x2 |-> 240, y2 |-> y1 + h] :
        y1 \in {0, 201}, h \in {0 - 20, 0, 77, 288, 505, 939, 1200} }

CellMetrics ==
    RenderMetrics
    \cup {[title |-> 100, month |-> 88, day_number |-> 20, classroom |-> 10,
            time |-> 8, beginner_label |-> 8, hidden |-> 8]}

EmptyFs == [fonts |-> {}, files |-> {}, dirs |-> {}]

\* The four fonts are in the default cache directory.
CachedFs ==
    LET paths == { DEFAULT_CACHE_DIR \o <<FontFileName(FontRoles[i])>> : i \in 1..4 }
    IN  [fonts |-> paths, files |-> paths, dirs |-> {DEFAULT_CACHE_DIR}]

\* The two Zen Kaku fonts are in the default cache directory, the others
\* nowhere.
HalfCachedFs ==
    LET paths == { DEFAULT_CACHE_DIR \o <<FontFileName(FontRoles[i])>> : i \in 1..2 }
    IN  [fonts |-> paths, files |-> paths, dirs |-> {DEFAULT_CACHE_DIR}]

\* File system and download outcome of a render: no font anywhere and a
\* download that fails, returns nothing, returns a font or returns something
\* that is no font; every font cached; two fonts cached and no network.
RenderEnvs ==
    { <<EmptyFs, "error">>, <<EmptyFs, "empty">>, <<EmptyFs, "font">>,
      <<EmptyFs, "garbage">>, <<CachedFs, "error">>, <<HalfCachedFs, "error">> }

\* ------------------------------------------------------------------------
\* Arguments of direct _fit_font_set_to_width calls
\* ------------------------------------------------------------------------
\* What _load_font_set builds for the sizes 27 and 45, with and without a
\* baseline offset, and a set whose fonts cannot be scaled.
FitFontSets ==
    { [jp_size |-> x[1], num_size |-> x[2], num_baseline_offset |-> off,
       num_line_height |-> x[3], scalable |-> sc] :
         x \in { <<27, 32, 32>>, <<45, 54, 54>> }, off \in {0, 3}, sc \in BOOLEAN }

FitTexts == [jp : 0..MaxJpChars, ascii : 0..MaxAsciiChars]

FitWidths == { 0, 10, 16 } \cup { 40 + 12 * k : k \in 0..18 }

\* Texts and widths of a shrinking sequence: from a width every text fits
\* in down to one nothing fits in.
ShrinkTexts ==
    { [jp |-> 2, ascii |-> 5], [jp |-> 0, ascii |-> 5], [jp |-> 2, ascii |-> 0],
      [jp |-> 1, ascii |-> 3] }

ShrinkWidths == { 0, 256 } \cup { 60 + 8 * k : k \in 0..12 }

\* Characters of the split texts: two ASCII ones (the last of the range among
\* them) and two that are not (the first after the range among them).
RunChars == { "A", "u007F", "u0080", "u591C" }

\* ------------------------------------------------------------------------
\* What load_month_entries returns in a post_monthly_schedule process
\* ------------------------------------------------------------------------
ProcessEntry(day) ==
    [day |-> day, title |-> <<>>, classroom |-> CLASS_A, venue |-> <<>>,
     start |-> Range(9, 0, 13, 0)[1], end |-> Range(9, 0, 13, 0)[2],
     slot |-> SLOT_FIRST]

ProcessTargets == { <<2026, 2>>, <<2026, 11>> }

\* For the month at the given offset: nothing, one entry of the month, or
\* only an entry of the month before it (visible, but no caption entry).
MonthLoads(first, offset) ==
    LET ym == ShiftYearMonth(first[1], first[2], offset)
        before == ShiftYearMonth(first[1], first[2], offset - 1)
    IN  { <<>>, <<ProcessEntry(Date(ym[1], ym[2], 10))>>,
          <<ProcessEntry(Date(before[1], before[2], MonthLen(before[1], before[2])))>> }

ProcessEnvs ==
    { <<EmptyFs, "error">>, <<EmptyFs, "font">>, <<CachedFs, "error">>,
      <<HalfCachedFs, "font">> }

\* ------------------------------------------------------------------------
\* Font settings and file systems of direct _resolve_single_font calls
\* ------------------------------------------------------------------------
EXPLICIT_FONT == <<"/opt/fonts", "explicit.ttf">>

BLANK_PATH == <<" ">>

BASE_FILE == <<"/opt/base.ttf">>

BASE_DIR == <<"/opt/fontdir">>

MISSING_PATH == <<"/opt/missing">>

CallRoles == {"jp_regular", "num_bold"}

\* Explicit path unset, blank or set (the same for every role); font_path
\* unset, a file, a directory or a path that does not exist.
FontSettings ==
    { [font_path |-> base, font_cache_dir |-> <<>>, font_jp_regular_path |-> explicit,
       font_jp_bold_path |-> explicit, font_num_regular_path |-> explicit,
       font_num_bold_path |-> explicit] :
         base \in {<<>>, BASE_FILE, BASE_DIR, MISSING_PATH},
         explicit \in {<<>>, BLANK_PATH, EXPLICIT_FONT} }

FontConfigs == { ConfigOf(1536, 2048, fonts) : fonts \in FontSettings }

\* The places of a role where a font may be installed: the explicit path,
\* font_path as a file, the role's file in font_path as a directory, the
\* cache file, the second and the last OS path.
FontPool(role) ==
    { EXPLICIT_FONT, BASE_FILE, BASE_DIR \o <<FontFileName(role)>>,
      DEFAULT_CACHE_DIR \o <<FontFileName(role)>>, OsFontPaths(role)[2],
      OsFontPaths(role)[5] }

\* Any set of the places holds a loadable font; font_path as a file exists
\* whether or not it is a font.
FontFileSystems(role) ==
    { [fonts |-> fonts, files |-> fonts \cup {BASE_FILE}, dirs |-> {BASE_DIR}] :
        fonts \in SUBSET FontPool(role) }

NetOutcomes == {"error", "empty", "font", "garbage"}

\* ------------------------------------------------------------------------
\* Schedule JSON handed to extract_month_entries_from_json
\* ------------------------------------------------------------------------
\* str(n).zfill(width)
RECURSIVE ZFill(_, _)
ZFill(text, width) == IF Len(text) >= width THEN text ELSE ZFill(<<"0">> \o text, width)

\* date.isoformat()
IsoDate(d) ==
    ZFill(Decimal(d.year), 4) \o <<"-">> \o ZFill(Decimal(d.month), 2) \o <<"-">>
    \o ZFill(Decimal(d.day), 2)

\* An ISO datetime text with the given zone suffix.
IsoDateTime(d, hour, minute, zone) ==
    IsoDate(d) \o <<"T">> \o ZFill(Decimal(hour), 2) \o <<":">>
    \o ZFill(Decimal(minute), 2) \o zone

ZONE_Z == <<"Z">>

ZONE_PLUS_14 == <<"+", "1", "4", ":", "0", "0">>

TEXT_BAD == <<"b", "a", "d">>

TEXT_NINE == <<"9", ":", "0", "0">>

JSON_MONTH == <<2026, 2>>

\* What the dates mapping holds under one date: well-formed records, a
\* record whose start is on another day, a start that crosses midnight in
\* the zone, a start outside the years a datetime holds, and non-objects.
JsonGroups ==
    { JDict(<< <<"classroom", JStr(CLASS_A)>>,
               <<"start", JStr(IsoDateTime(Date(2026, 2, 26), 9, 0, <<>>))>>,
               <<"end", JStr(IsoDateTime(Date(2026, 2, 26), 13, 0, <<>>))>> >>),
      JDict(<< <<"classroom", JStr(CLASS_A)>>,
               <<"start", JStr(IsoDateTime(Date(2026, 4, 10), 9, 0, <<>>))>> >>),
      JDict(<< <<"classroom", JStr(CLASS_B)>>, <<"time", JStr(TEXT_NINE)>> >>),
      JDict(<< <<"classroom", JStr(CLASS_A)>>,
               <<"start", JStr(IsoDateTime(Date(2026, 2, 28), 23, 0, ZONE_Z))>> >>),
      JDict(<< <<"classroom", JStr(CLASS_A)>>,
               <<"start", JStr(IsoDateTime(Date(1, 1, 1), 0, 0, ZONE_PLUS_14))>> >>),
      JDict(<< <<"classroom", JStr(CLASS_B)>> >>),
      JStr(TEXT_BAD),
      JNull }

\* The keys of the dates mapping: in the month, in the visible range only,
\* outside both, and no date.
DateKeyTexts ==
    { IsoDate(Date(2026, 2, 26)), IsoDate(Date(2026, 1, 26)),
      IsoDate(Date(2026, 4, 10)), TEXT_BAD }

FlatInMonth ==
    JDict(<< <<"date", JStr(IsoDate(Date(2026, 2, 26)))>>,
             <<"classroom", JStr(CLASS_A)>> >>)

\* Items of a flat list: dated in the month, in the visible range only,
\* outside both, without a day, a non-object, dated in the month with a
\* start on another day, and dated outside the years a datetime holds.
FlatItems ==
    { FlatInMonth,
      JDict(<< <<"date", JStr(IsoDate(Date(2026, 1, 26)))>>,
               <<"classroom", JStr(CLASS_B)>> >>),
      JDict(<< <<"date", JStr(IsoDate(Date(2026, 4, 10)))>> >>),
      JDict(<< <<"title", JStr(CLASS_A)>> >>),
      JInt(7),
      JDict(<< <<"date", JStr(IsoDate(Date(2026, 2, 26)))>>,
               <<"start", JStr(IsoDateTime(Date(2026, 4, 10), 9, 0, <<>>))>> >>),
      JDict(<< <<"date", JStr(IsoDateTime(Date(1, 1, 1), 0, 0, ZONE_PLUS_14))>> >>) }

\* A dates mapping of one key, alone or beside a flat list.
DatesPayloads ==
    { JDict(<< <<"dates", JDict(<< <<k, v>> >>)>> >> \o flat) :
        k \in DateKeyTexts,
        v \in { JList(g) : g \in SeqsUpTo(JsonGroups, MaxGroupItems) } \cup JsonGroups,
        flat \in { <<>>, << <<"entries", JList(<<FlatInMonth>>)>> >> } }

FlatValues ==
    { JStr(TEXT_BAD) } \cup { JList(q) : q \in SeqsUpTo(FlatItems, MaxListItems) }

\* Flat lists under two of the list keys, beside no dates mapping, one whose
\* only key is in the visible range, or a dates value that is no mapping.
FlatPayloads ==
    { JDict(d \o << <<k[1], v1>>, <<k[2], v2>> >>) :
        d \in { <<>>,
                << <<"dates", JDict(<< <<IsoDate(Date(2026, 1, 26)),
                                         JList(<<JDict(<< <<"classroom", JStr(CLASS_B)>> >>)>>)>> >>)>> >>,
                << <<"dates", JList(<<>>)>> >> },
        k \in { <<"entries", "schedules">>, <<"items", "entries">>,
                <<"lessons", "items">> },
        v1 \in FlatValues, v2 \in FlatValues }

\* A payload under the key "data", and a "data" value that is no mapping.
WrappedPayloads ==
    { JDict(<< <<"data", JDict(<< <<"entries", JList(<<item>>)>> >>)>>,
               <<"entries", JList(<<FlatInMonth>>)>> >>) : item \in FlatItems }
    \cup { JDict(<< <<"data", JStr(TEXT_BAD)>>,
                    <<"entries", JList(<<item>>)>> >>) : item \in FlatItems }

\* Pages of the schedule database: dated in the month, with a time in the
\* visible range only, dated outside both, and without a date.
PageInMonth ==
    [date_start |-> IsoDate(Date(2026, 2, 26)), date_end |-> <<>>,
     title |-> <<>>, classroom |-> CLASS_A, venue |-> <<>>]

PageAdjacent ==
    [date_start |-> IsoDateTime(Date(2026, 1, 26), 9, 0, <<>>),
     date_end |-> IsoDateTime(Date(2026, 1, 26), 13, 0, <<>>),
     title |-> <<>>, classroom |-> CLASS_B, venue |-> <<>>]

PageOutside ==
    [date_start |-> IsoDateTime(Date(2026, 4, 10), 0, 30, ZONE_Z), date_end |-> <<>>,
     title |-> <<>>, classroom |-> CLASS_A, venue |-> <<>>]

PageNoDate ==
    [date_start |-> <<>>, date_end |-> <<>>,
     title |-> <<>>, classroom |-> CLASS_B, venue |-> <<>>]

\* The results of one response.
FetchResultLists ==
    { <<>>, <<PageInMonth>>, <<PageInMonth, PageAdjacent>>,
      <<PageOutside, PageNoDate>>, <<PageAdjacent, PageInMonth>> }

\* Query results of n pages: every response up to page last says has_more
\* and names the next page, page last says no more; the pages after it are
\* never announced.
FetchServersOf(n) ==
    { [k \in 1..n |->
          [results |-> rs[k], has_more |-> k < last,
           next_cursor |-> IF k < last THEN PageCursor(k + 1) ELSE <<>>]] :
        rs \in [1..n -> FetchResultLists], last \in 1..n }

FetchServers == UNION { FetchServersOf(n) : n \in 1..MaxPages }

\* Items of a flat list: dated in the month, a start given as a time of day
\* without a date, the same beside a date, and a date key holding a time of
\* day.
ClockItems ==
    { FlatInMonth,
      JDict(<< <<"classroom", JStr(CLASS_A)>>, <<"start", JStr(TEXT_NINE)>> >>),
      JDict(<< <<"date", JStr(IsoDate(Date(2026, 2, 26)))>>,
               <<"classroom", JStr(CLASS_B)>>, <<"start", JStr(TEXT_NINE)>> >>),
      JDict(<< <<"day", JStr(TEXT_NINE)>>, <<"classroom", JStr(CLASS_B)>> >>) }

\* A flat list under "entries", and a dates mapping whose record has a time
\* of day.
ClockPayloads ==
    { JDict(<< <<"entries", JList(q)>> >>) : q \in SeqsUpTo(ClockItems, MaxClockItems) }
    \cup { JDict(<< <<"dates", JDict(<< <<IsoDate(Date(2026, 2, 26)),
                       JDict(<< <<"classroom", JStr(CLASS_A)>>,
                                <<"start", JStr(TEXT_NINE)>> >>)>> >>)>> >>) }

JsonPayloads == DatesPayloads \cup FlatPayloads \cup WrappedPayloads

\* ------------------------------------------------------------------------
\* Initial states
\* ------------------------------------------------------------------------
\* No fetch_month_entries call is running.
FetchIdle ==
    /\ notion = <<>>
    /\ start_cursor = <<>>
    /\ requests = <<>>
    /\ fetched = <<>>

\* No direct call of a text or layout helper is running.
LateIdle ==
    /\ split_text = <<>>
    /\ runs = <<>>
    /\ FetchIdle

\* No direct call is running.
CallIdle ==
    /\ data = <<>>
    /\ include_adjacent = FALSE
    /\ today = <<>>
    /\ extracted = <<>>
    /\ fit_in = <<>>
    /\ fit_out = <<>>
    /\ font_role = ""
    /\ LateIdle

\* No render is running.
RenderIdle ==
    /\ loads = <<>>
    /\ first_target = <<>>
    /\ month_index = 0
    /\ target = <<>>
    /\ config = <<>>
    /\ metrics = <<>>
    /\ fs = <<>>
    /\ net = ""
    /\ cell_rect = <<>>
    /\ heap = <<>>
    /\ entries_before = <<>>
    /\ events_by_day = <<>>
    /\ cells = <<>>
    /\ font_paths = <<>>
    /\ io_logs = <<>>
    /\ images = <<>>

\* A call of _build_day_cards on a list of entries.
InitWith(entries) ==
    /\ events \in SeqsUpTo(entries, MaxEvents)
    /\ pc = "start"
    /\ queue = <<>>
    /\ merged = <<>>
    /\ by_key = <<>>
    /\ cards = <<>>
    /\ drawn = <<>>
    /\ slot_in = [slot |-> <<>>, title |-> <<>>]
    /\ slot_out = <<>>
    /\ texts_in = <<>>
    /\ texts_done = <<>>
    /\ field = <<>>
    /\ RenderIdle
    /\ CallIdle

Init == InitWith(TimeEntries)

InitGroup == InitWith(GroupEntries)

InitVenue == InitWith(VenueEntries)

InitNight == InitWith(NightEntries)

InitBadge == InitWith(BadgeEntries)

InitOrder == InitWith(OrderEntries)

\* The drawing loop of _draw_day_events on one given card.
InitRows ==
    /\ cards \in { <<c>> : c \in RowCards }
    /\ pc = "draw"
    /\ events = <<>>
    /\ queue = <<>>
    /\ merged = <<>>
    /\ by_key = <<>>
    /\ drawn = <<>>
    /\ slot_in = [slot |-> <<>>, title |-> <<>>]
    /\ slot_out = <<>>
    /\ texts_in = <<>>
    /\ texts_done = <<>>
    /\ field = <<>>
    /\ RenderIdle
    /\ CallIdle

\* A direct call of _normalize_slot.
InitSlot ==
    /\ slot_in \in [slot : SlotTexts, title : SlotTexts]
    /\ slot_out = <<>>
    /\ pc = "slot"
    /\ events = <<>>
    /\ queue = <<>>
    /\ merged = <<>>
    /\ by_key = <<>>
    /\ cards = <<>>
    /\ drawn = <<>>
    /\ texts_in = <<>>
    /\ texts_done = <<>>
    /\ field = <<>>
    /\ RenderIdle
    /\ CallIdle

\* A run of _merge_time_text calls on one field, starting empty.
InitMerge ==
    /\ texts_in \in SeqsUpTo(MergeTexts, MaxMerges)
    /\ texts_done = <<>>
    /\ field = <<>>
    /\ pc = "mergetext"
    /\ events = <<>>
    /\ queue = <<>>
    /\ merged = <<>>
    /\ by_key = <<>>
    /\ cards = <<>>
    /\ drawn = <<>>
    /\ slot_in = [slot |-> <<>>, title |-> <<>>]
    /\ slot_out = <<>>
    /\ RenderIdle
    /\ CallIdle

\* No _build_day_cards, _normalize_slot or _merge_time_text call is running.
BuildIdle ==
    /\ events = <<>>
    /\ queue = <<>>
    /\ merged = <<>>
    /\ by_key = <<>>
    /\ cards = <<>>
    /\ drawn = <<>>
    /\ slot_in = [slot |-> <<>>, title |-> <<>>]
    /\ slot_out = <<>>
    /\ texts_in = <<>>
    /\ texts_done = <<>>
    /\ field = <<>>

\* A call of _draw_day_events whose day has up to MaxCellCards cards, or forty.
InitCell ==
    /\ pc = "cell"
    /\ cards \in { CellCards(n) : n \in (1..MaxCellCards) \cup {40} }
    /\ cell_rect \in CellRects
    /\ metrics \in CellMetrics
    /\ events = <<>>
    /\ queue = <<>>
    /\ merged = <<>>
    /\ by_key = <<>>
    /\ drawn = <<>>
    /\ slot_in = [slot |-> <<>>, title |-> <<>>]
    /\ slot_out = <<>>
    /\ texts_in = <<>>
    /\ texts_done = <<>>
    /\ field = <<>>
    /\ loads = <<>>
    /\ first_target = <<>>
    /\ month_index = 0
    /\ target = <<>>
    /\ config = <<>>
    /\ fs = <<>>
    /\ net = ""
    /\ heap = <<>>
    /\ entries_before = <<>>
    /\ events_by_day = <<>>
    /\ cells = <<>>
    /\ font_paths = <<>>
    /\ io_logs = <<>>
    /\ images = <<>>
    /\ CallIdle

\* A call of render_monthly_schedule_image(year, month, entries, config).
InitFit ==
    /\ pc = "fit"
    /\ fit_in \in [text : FitTexts, fonts : FitFontSets, max_width : FitWidths]
    /\ fit_out = <<>>
    /\ data = <<>>
    /\ include_adjacent = FALSE
    /\ today = <<>>
    /\ extracted = <<>>
    /\ font_role = ""
    /\ LateIdle
    /\ BuildIdle
    /\ RenderIdle

\* A text and a font set before the first call of a shrinking sequence:
\* fit_in.max_width is the width of the call before.
InitShrink ==
    /\ pc = "shrink"
    /\ fit_in \in [text : ShrinkTexts, fonts : FitFontSets, max_width : {256}]
    /\ fit_out = <<>>
    /\ data = <<>>
    /\ include_adjacent = FALSE
    /\ today = <<>>
    /\ extracted = <<>>
    /\ font_role = ""
    /\ LateIdle
    /\ BuildIdle
    /\ RenderIdle

\* A text before _split_text_runs is called on it.
InitRuns ==
    /\ pc = "split"
    /\ split_text \in SeqsUpTo(RunChars, MaxRunChars)
    /\ runs = <<>>
    /\ FetchIdle
    /\ data = <<>>
    /\ include_adjacent = FALSE
    /\ today = <<>>
    /\ extracted = <<>>
    /\ fit_in = <<>>
    /\ fit_out = <<>>
    /\ font_role = ""
    /\ BuildIdle
    /\ RenderIdle

InitProcess ==
    /\ BuildIdle
    /\ CallIdle
    /\ pc = "load"
    /\ first_target \in ProcessTargets
    /\ loads \in { <<a, b, c>> : a \in MonthLoads(first_target, 0),
                                   b \in MonthLoads(first_target, 1),
                                   c \in MonthLoads(first_target, 2) }
    /\ month_index = 1
    /\ target = <<>>
    /\ config = ConfigOf(1536, 2048, NoFontPaths)
    /\ metrics \in RenderMetrics
    /\ \E env \in ProcessEnvs : fs = env[1] /\ net = env[2]
    /\ cell_rect = <<>>
    /\ heap = <<>>
    /\ entries_before = <<>>
    /\ events_by_day = <<>>
    /\ cells = <<>>
    /\ font_paths = <<>>
    /\ io_logs = <<>>
    /\ images = <<>>

InitFont ==
    /\ pc = "font"
    /\ font_role \in CallRoles
    /\ LateIdle
    /\ config \in FontConfigs
    /\ fs \in FontFileSystems(font_role)
    /\ net \in NetOutcomes
    /\ loads = <<>>
    /\ first_target = <<>>
    /\ month_index = 0
    /\ target = <<>>
    /\ metrics = <<>>
    /\ cell_rect = <<>>
    /\ heap = <<>>
    /\ entries_before = <<>>
    /\ events_by_day = <<>>
    /\ cells = <<>>
    /\ font_paths = <<>>
    /\ io_logs = <<>>
    /\ images = <<>>
    /\ data = <<>>
    /\ include_adjacent = FALSE
    /\ today = <<>>
    /\ extracted = <<>>
    /\ fit_in = <<>>
    /\ fit_out = <<>>
    /\ BuildIdle

InitJson ==
    /\ pc = "extract"
    /\ data \in JsonPayloads
    /\ include_adjacent \in BOOLEAN
    /\ today = Date(2026, 2, 10)
    /\ extracted = <<>>
    /\ fit_in = <<>>
    /\ fit_out = <<>>
    /\ font_role = ""
    /\ LateIdle
    /\ BuildIdle
    /\ RenderIdle

\* extract_month_entries_from_json on a flat list, run on one of several
\* dates.
InitClock ==
    /\ pc = "extract"
    /\ data \in ClockPayloads
    /\ include_adjacent \in BOOLEAN
    /\ today \in ClockDays
    /\ extracted = <<>>
    /\ fit_in = <<>>
    /\ fit_out = <<>>
    /\ font_role = ""
    /\ LateIdle
    /\ BuildIdle
    /\ RenderIdle

\* Before fetch_month_entries is called.
InitFetch ==
    /\ pc = "fetch_call"
    /\ CallIdle
    /\ BuildIdle
    /\ RenderIdle

InitRender ==
    /\ BuildIdle
    /\ CallIdle
    /\ pc = "render"
    /\ loads = <<>>
    /\ first_target = <<>>
    /\ month_index = 0
    /\ target \in RenderTargets
    /\ config \in RenderConfigs
    /\ metrics \in RenderMetrics
    /\ \E env \in RenderEnvs : fs = env[1] /\ net = env[2]
    /\ cell_rect = <<>>
    /\ heap \in { <<es>> : es \in SeqsUpTo(RenderEntries, MaxRenderEntries) }
    /\ entries_before = heap[1]
    /\ events_by_day = <<>>
    /\ cells = <<>>
    /\ font_paths = <<>>
    /\ io_logs = <<>>
    /\ images = <<>>

\* ------------------------------------------------------------------------
\* Actions
\* ------------------------------------------------------------------------
\* _build_day_cards, entry: by_key = {} and the entries sorted.
BuildStart ==
    /\ pc = "start"
    /\ queue' = SortEntries(events)
    /\ merged' = <<>>
    /\ by_key' = <<>>
    /\ pc' = "merge"
    /\ UNCHANGED <<events, cards, drawn, slot_in, slot_out, texts_in, texts_done, field,
                   renderVars, callVars>>

\* _build_day_cards, one iteration of the loop over the sorted entries.
MergeEntry ==
    /\ pc = "merge"
    /\ queue # <<>>
    /\ by_key' = MergeEntryInto(by_key, Head(queue))
    /\ merged' = Append(merged, Head(queue))
    /\ queue' = Tail(queue)
    /\ UNCHANGED <<events, pc, cards, drawn, slot_in, slot_out, texts_in, texts_done,
                   field,
                   renderVars, callVars>>

\* _build_day_cards, after the loop: cards = list(by_key.values()).
CollectCards ==
    /\ pc = "merge"
    /\ queue = <<>>
    /\ cards' = [i \in 1..Len(by_key) |-> by_key[i].card]
    /\ pc' = "backfill"
    /\ UNCHANGED <<events, queue, merged, by_key, drawn, slot_in, slot_out, texts_in,
                   texts_done, field,
                   renderVars, callVars>>

\* _build_day_cards, the backfill loop over all cards.
Backfill ==
    /\ pc = "backfill"
    /\ cards' = [i \in 1..Len(cards) |-> BackfillCard(cards[i], cards[i].other_times)]
    /\ pc' = "sort"
    /\ UNCHANGED <<events, queue, merged, by_key, drawn, slot_in, slot_out, texts_in,
                   texts_done, field,
                   renderVars, callVars>>

\* _build_day_cards, cards.sort and return.
SortAndReturn ==
    /\ pc = "sort"
    /\ cards' = SortCards(cards)
    /\ pc' = "built"
    /\ UNCHANGED <<events, queue, merged, by_key, drawn, slot_in, slot_out, texts_in,
                   texts_done, field,
                   renderVars, callVars>>

\* _draw_day_events, cards = _build_day_cards(events) has returned: the loop
\* over the cards starts.
DrawBuiltCards ==
    /\ pc = "built"
    /\ pc' = "draw"
    /\ UNCHANGED <<events, queue, merged, by_key, cards, drawn, slot_in, slot_out,
                   texts_in, texts_done, field,
                   renderVars, callVars>>

\* _draw_day_events, one iteration of the loop over the cards: the time rows
\* and the night badge indexes of the next card.
DrawCard ==
    /\ pc = "draw"
    /\ Len(drawn) < Len(cards)
    /\ LET card == cards[Len(drawn) + 1]
           rows == BuildFixedTimeRows(card)
       IN  drawn' = Append(drawn,
                [lines |-> rows.lines, beginner_time |-> rows.beginner_time,
                 night_time_indexes |-> ResolveNightTimeLineIndexes(card, rows.lines)])
    /\ UNCHANGED <<events, pc, queue, merged, by_key, cards, slot_in, slot_out,
                   texts_in, texts_done, field,
                   renderVars, callVars>>

\* _draw_day_events, after the loop.
DrawDone ==
    /\ pc = "draw"
    /\ Len(drawn) = Len(cards)
    /\ pc' = "done"
    /\ UNCHANGED <<events, queue, merged, by_key, cards, drawn, slot_in, slot_out,
                   texts_in, texts_done, field,
                   renderVars, callVars>>

\* A direct call of _normalize_slot(slot, title).
ClassifySlot ==
    /\ pc = "slot"
    /\ slot_out' = <<NormalizeSlot(slot_in.slot, slot_in.title)>>
    /\ pc' = "classified"
    /\ UNCHANGED <<events, queue, merged, by_key, cards, drawn, slot_in, texts_in,
                   texts_done, field,
                   renderVars, callVars>>

\* field = _merge_time_text(field, time_text) for the next time text.
MergeText ==
    /\ pc = "mergetext"
    /\ texts_in # <<>>
    /\ field' = MergeTimeText(field, Head(texts_in))
    /\ texts_done' = Append(texts_done, Head(texts_in))
    /\ texts_in' = Tail(texts_in)
    /\ UNCHANGED <<events, pc, queue, merged, by_key, cards, drawn, slot_in, slot_out,
                   renderVars, callVars>>

\* render_monthly_schedule_image, font resolution: raises, or the font sets
\* are loaded and the header drawn.
RenderResolveFonts ==
    /\ pc = "render"
    /\ LET r == ResolveRequiredFontPaths(config, fs, net)
       IN  /\ fs' = r.fs
           /\ io_logs' = Append(io_logs, r.log)
           /\ font_paths' = r.paths
           /\ pc' = IF r.raised THEN "raised" ELSE "group"
    /\ UNCHANGED <<buildVars, callVars, renderInputs, month_index, target, heap, events_by_day,
                   cells, images>>

\* render_monthly_schedule_image, the entries grouped by day and each day's
\* list sorted.
RenderGroupEntries ==
    /\ pc = "group"
    /\ LET g == GroupFrom(heap, <<>>, 1)
       IN  /\ heap' = SortDayLists(g.heap, g.by_day)
           /\ events_by_day' = g.by_day
    /\ pc' = "cells"
    /\ UNCHANGED <<buildVars, callVars, renderInputs, month_index, target, fs, cells,
                   font_paths, io_logs, images>>

\* render_monthly_schedule_image, the loop over the cells, and the return of
\* the image.
RenderDrawCells ==
    /\ pc = "cells"
    /\ cells' = DrawCells(target[1], target[2], config, metrics, heap, events_by_day)
    /\ images' = Append(images, target)
    /\ pc' = "rendered"
    /\ UNCHANGED <<buildVars, callVars, renderInputs, month_index, target, fs, heap,
                   events_by_day, font_paths, io_logs>>

\* _resolve_single_font for font_role, with the candidates that
\* _resolve_required_font_paths hands it.
ResolveSingleFontCall ==
    /\ pc = "font"
    /\ LET r == ResolveSingleFont(FontCandidates(config, fs, font_role),
                                  CacheDir(config) \o <<FontFileName(font_role)>>,
                                  fs, net, <<>>)
       IN  /\ fs' = r.fs
           /\ io_logs' = <<r.log>>
           /\ font_paths' = IF r.raised THEN <<>> ELSE <<r.path>>
           /\ pc' = IF r.raised THEN "font_raised" ELSE "font_resolved"
    /\ UNCHANGED <<buildVars, callVars, renderInputs, month_index, target, heap,
                   events_by_day, cells, images>>

\* extract_month_entries_from_json(data, year, month, include_adjacent=...)
ExtractMonthEntries ==
    /\ pc = "extract"
    /\ extracted' = <<ExtractMonthEntriesFromJson(data, JSON_MONTH[1], JSON_MONTH[2],
                                                  include_adjacent, today)>>
    /\ pc' = IF extracted'[1].raised THEN "raised" ELSE "extracted"
    /\ UNCHANGED <<buildVars, renderVars, fitVars, font_role, lateVars, data, include_adjacent,
                   today>>

\* _fit_font_set_to_width(draw, text, fonts, max_width)
FitFontSetToWidthCall ==
    /\ pc = "fit"
    /\ fit_out' = <<FitFontSetToWidth(fit_in.text, fit_in.fonts, fit_in.max_width)>>
    /\ pc' = "fitted"
    /\ UNCHANGED <<buildVars, renderVars, extractVars, font_role, lateVars, fit_in>>

\* The next _fit_font_set_to_width call of a shrinking sequence: same text
\* and fonts, a max_width that is not above the one before.
FitNarrowerCall ==
    /\ pc = "shrink"
    /\ Len(fit_out) < MaxFits
    /\ \E w \in ShrinkWidths :
          /\ w <= fit_in.max_width
          /\ fit_in' = [fit_in EXCEPT !.max_width = w]
          /\ fit_out' = Append(fit_out, FitFontSetToWidth(fit_in.text, fit_in.fonts, w))
    /\ UNCHANGED <<pc, buildVars, renderVars, extractVars, font_role, lateVars>>

\* fetch_month_entries(year, month, include_adjacent=...) up to the loop,
\* on a database whose query result is one of FetchServers.
FetchCall ==
    /\ pc = "fetch_call"
    /\ notion' \in FetchServers
    /\ include_adjacent' \in BOOLEAN
    /\ fetched' = <<>>
    /\ start_cursor' = <<>>
    /\ pc' = "fetch"
    /\ UNCHANGED <<buildVars, renderVars, fitVars, font_role, split_text, runs, data,
                   today, extracted, requests>>

\* fetch_month_entries, one pass of the while loop: the request, the loop
\* over its results, and the test of has_more.
FetchPage ==
    /\ pc = "fetch"
    /\ requests' = Append(requests, start_cursor)
    /\ LET step == FetchIteration(fetched, start_cursor,
                                  QueryResponse(notion, start_cursor),
                                  ExtractRange(JSON_MONTH[1], JSON_MONTH[2],
                                               include_adjacent))
       IN  /\ fetched' = step.entries
           /\ start_cursor' = step.start_cursor
           /\ pc' = IF step.raised THEN "raised"
                    ELSE IF step.done THEN "fetch_sort" ELSE "fetch"
    /\ UNCHANGED <<buildVars, renderVars, extractVars, fitVars, font_role, split_text,
                   runs, notion>>

\* fetch_month_entries after the loop: entries.sort and the return.
FetchReturn ==
    /\ pc = "fetch_sort"
    /\ fetched' = SortEntries(fetched)
    /\ pc' = "fetched"
    /\ UNCHANGED <<buildVars, renderVars, extractVars, fitVars, font_role, split_text,
                   runs, notion, start_cursor, requests>>

\* _split_text_runs(text)
SplitTextRunsCall ==
    /\ pc = "split"
    /\ runs' = SplitTextRuns(split_text)
    /\ pc' = "split_done"
    /\ UNCHANGED <<buildVars, renderVars, extractVars, fitVars, font_role, split_text,
                   fetchVars>>

\* One pass of the loop over target_months whose month has no caption
\* entry: continue.
ProcessSkipMonth ==
    /\ pc = "load"
    /\ month_index <= TargetMonthCount
    /\ LET ym == ShiftYearMonth(first_target[1], first_target[2], month_index - 1)
       IN  CaptionEntries(loads[month_index], ym[1], ym[2]) = <<>>
    /\ month_index' = month_index + 1
    /\ UNCHANGED <<pc, buildVars, callVars, loads, first_target, config, metrics, net,
                   cell_rect, entries_before, target, fs, heap, events_by_day, cells,
                   font_paths, io_logs, images>>

\* One pass whose month has caption entries: render_monthly_schedule_image
\* is called with the loaded entries and the process-wide render_config.
ProcessCallRender ==
    /\ pc = "load"
    /\ month_index <= TargetMonthCount
    /\ LET ym == ShiftYearMonth(first_target[1], first_target[2], month_index - 1)
       IN  /\ CaptionEntries(loads[month_index], ym[1], ym[2]) # <<>>
           /\ target' = ym
    /\ heap' = <<loads[month_index]>>
    /\ entries_before' = loads[month_index]
    /\ events_by_day' = <<>>
    /\ pc' = "render"
    /\ UNCHANGED <<buildVars, callVars, loads, first_target, config, metrics, net,
                   cell_rect, month_index, fs, cells, font_paths, io_logs, images>>

\* The image is returned to the loop: month_items.append(...).
ProcessKeepImage ==
    /\ pc = "rendered"
    /\ month_index \in 1..TargetMonthCount
    /\ month_index' = month_index + 1
    /\ pc' = "load"
    /\ UNCHANGED <<buildVars, callVars, loads, first_target, config, metrics, net,
                   cell_rect, entries_before, target, fs, heap, events_by_day, cells,
                   font_paths, io_logs, images>>

\* After the loop: ClickException when no month had entries, else the
\* images go on to be posted.
ProcessLoopDone ==
    /\ pc = "load"
    /\ month_index > TargetMonthCount
    /\ pc' = IF images = <<>> THEN "no_entries" ELSE "post"
    /\ UNCHANGED <<buildVars, callVars, renderVars>>

\* _draw_day_events(rect=cell_rect, ...), from the cards of the day on.
DrawDayEventsCall ==
    /\ pc = "cell"
    /\ cells' = <<[rect |-> cell_rect, drawn |-> DrawCards(cards, cell_rect, metrics)]>>
    /\ pc' = "cell_drawn"
    /\ UNCHANGED <<buildVars, callVars, renderInputs, month_index, target, fs, heap,
                   events_by_day, font_paths, io_logs, images>>

Next ==
    \/ BuildStart
    \/ MergeEntry
    \/ CollectCards
    \/ Backfill
    \/ SortAndReturn

NextBadge ==
    \/ BuildStart
    \/ MergeEntry
    \/ CollectCards
    \/ Backfill
    \/ SortAndReturn
    \/ DrawBuiltCards
    \/ DrawCard
    \/ DrawDone

NextRender == RenderResolveFonts \/ RenderGroupEntries \/ RenderDrawCells

NextProcess ==
    \/ ProcessSkipMonth
    \/ ProcessCallRender
    \/ RenderResolveFonts
    \/ RenderGroupEntries
    \/ RenderDrawCells
    \/ ProcessKeepImage
    \/ ProcessLoopDone

NextCell == DrawDayEventsCall

NextFit == FitFontSetToWidthCall

NextShrink == FitNarrowerCall

NextFetch == FetchCall \/ FetchPage \/ FetchReturn

NextRuns == SplitTextRunsCall

NextJson == ExtractMonthEntries

NextFont == ResolveSingleFontCall

NextRows == DrawCard \/ DrawDone

NextSlot == ClassifySlot

NextMerge == MergeText

\* _build_day_cards on entries of one classroom.
Spec == Init /\ [][Next]_vars

\* _build_day_cards on entries of several classrooms.
SpecGroup == InitGroup /\ [][Next]_vars

\* _build_day_cards on entries with several venues.
SpecVenue == InitVenue /\ [][Next]_vars

\* _build_day_cards on night and non-night entries of two classrooms.
SpecNight == InitNight /\ [][Next]_vars

\* _draw_day_events on the entries of one day: the cards are built, then
\* drawn one by one.
SpecBadge == InitBadge /\ [][NextBadge]_vars

\* extract_month_entries_from_json run on different dates.
SpecClock == InitClock /\ [][ExtractMonthEntries]_vars

\* _build_day_cards on entries with and without a start.
SpecOrder == InitOrder /\ [][Next]_vars

\* render_monthly_schedule_image on a given list of entries.
SpecRender == InitRender /\ [][NextRender]_vars

\* One post_monthly_schedule process up to the posting of its images.
SpecProcess == InitProcess /\ [][NextProcess]_vars

\* _draw_day_events on the cards of one day and a given rect.
SpecCell == InitCell /\ [][NextCell]_vars

\* One _fit_font_set_to_width call.
SpecFit == InitFit /\ [][NextFit]_vars

\* _fit_font_set_to_width calls on one text and font set with shrinking widths.
SpecShrink == InitShrink /\ [][NextShrink]_vars

\* The call is inside fetch_month_entries: in its loop or at the sort after
\* it.  These are the states in which FetchPage or FetchReturn can step.
FetchRunning == pc \in {"fetch", "fetch_sort"}

\* One fetch_month_entries call.  A running call goes on: weak fairness of
\* its steps, WF_vars(FetchPage \/ FetchReturn), with the enabling condition
\* written out as FetchRunning.
SpecFetch ==
    /\ InitFetch
    /\ [][NextFetch]_vars
    /\ ([]<>(~FetchRunning) \/ []<><<FetchPage \/ FetchReturn>>_vars)

\* One _split_text_runs call.
SpecRuns == InitRuns /\ [][NextRuns]_vars

\* One extraction of a schedule JSON for February 2026.
SpecJson == InitJson /\ [][NextJson]_vars

\* One _resolve_single_font call.
SpecFont == InitFont /\ [][NextFont]_vars

\* _build_fixed_time_rows and _resolve_night_time_line_indexes on a given card.
SpecRows == InitRows /\ [][NextRows]_vars

\* _normalize_slot on a given hint and title.
SpecSlot == InitSlot /\ [][NextSlot]_vars

\* _merge_time_text on a given sequence of time texts.
SpecMerge == InitMerge /\ [][NextMerge]_vars

\* ------------------------------------------------------------------------
\* Claims
\* ------------------------------------------------------------------------
NoRepeat(q) == \A i, j \in 1..Len(q) : i # j => q[i] # q[j]

\* The time values found in a card's four time fields.
CardTimeValues(card) ==
    SeqSet(ExpandTimeValues(card.first_time))
        \cup SeqSet(ExpandTimeValues(card.second_time))
        \cup SeqSet(ExpandTimeValues(card.beginner_time))
        \cup SeqSet(card.other_times)

\* The classroom key as the claims state it: the stripped classroom, the
\* undecided key for an empty one.
ClaimKey(classroom) ==
    IF Strip(classroom) # <<>> THEN Strip(classroom) ELSE UNDECIDED_KEY

T_0900_1300 == <<" ", "9", ":", "0", "0", "~", "1", "3", ":", "0", "0">>
T_1200_1600 == <<"1", "2", ":", "0", "0", "~", "1", "6", ":", "0", "0">>
T_1200_1400 == <<"1", "2", ":", "0", "0", "~", "1", "4", ":", "0", "0">>
T_1730_2000 == <<"1", "7", ":", "3", "0", "~", "2", "0", ":", "0", "0">>

\* C1: the cards returned by _build_day_cards are one per distinct classroom
\* key of the entries, and every time value in a card's first_time,
\* second_time, beginner_time or other_times is the formatted time range of an
\* entry with the card's own classroom key.
C1_OneCardPerKeyNoLeak ==
    pc = "built" =>
        /\ \A i, j \in 1..Len(cards) :
               i # j => ClaimKey(cards[i].classroom) # ClaimKey(cards[j].classroom)
        /\ { ClaimKey(cards[i].classroom) : i \in 1..Len(cards) }
               = { ClaimKey(events[k].classroom) : k \in 1..Len(events) }
        /\ \A i \in 1..Len(cards) :
               CardTimeValues(cards[i]) \subseteq
                   { FormatTimeRange(events[k]) :
                       k \in { n \in 1..Len(events) :
                                 ClaimKey(events[n].classroom)
                                     = ClaimKey(cards[i].classroom) } }

\* Three entries of two classroom keys, one key spelled with and without
\* padding and holding two time values, the other key holding a different one.
C1_Witness ==
    /\ pc = "built"
    /\ Len(events) = 3
    /\ Len(cards) = 2
    /\ \E k, n \in 1..Len(events) :
           events[k].classroom = CLASS_A /\ events[n].classroom = CLASS_A_PADDED
    /\ \E i, j \in 1..Len(cards) :
           /\ cards[i].classroom = CLASS_A
           /\ cards[i].first_time = T_0900_1300
           /\ cards[i].second_time = T_1200_1600
           /\ cards[j].classroom = <<>>
           /\ cards[j].first_time = T_1200_1600
           /\ cards[j].second_time = <<>>

\* The entries of one slot hint, and a card field checked against them.
C2_SlotTexts(slot) ==
    { FormatTimeRange(events[k]) : k \in { n \in 1..Len(events) : events[n].slot = slot } }

C2_FieldHolds(value, slot) ==
    /\ SeqSet(ExpandTimeValues(value)) = C2_SlotTexts(slot)
    /\ NoRepeat(ExpandTimeValues(value))
    /\ value = Join(ExpandTimeValues(value), TIME_SEP)

C2_Entry(slot, range) ==
    [day |-> Date(2026, 2, 26), title |-> <<>>, classroom |-> CLASS_A, venue |-> <<>>,
     start |-> range[1], end |-> range[2], slot |-> slot]

C2_Example ==
    << C2_Entry(SLOT_FIRST, Range(12, 0, 16, 0)),
       C2_Entry(SLOT_BEGINNER, Range(12, 0, 14, 0)) >>

\* C2: for entries of one classroom that all carry a slot, _build_day_cards
\* returns one card whose first_time, second_time and beginner_time each hold
\* the " / "-joined time ranges of exactly the entries of that slot (empty when
\* there is none); first 12:00-16:00 plus beginner 12:00-14:00 gives
\* first_time "12:00~16:00", beginner_time "12:00~14:00", second_time "".
C2_SlotsMergedPerField ==
    (/\ pc = "built"
     /\ events # <<>>
     /\ \A k \in 1..Len(events) :
            events[k].slot \in {SLOT_FIRST, SLOT_SECOND, SLOT_BEGINNER})
    => /\ Len(cards) = 1
       /\ C2_FieldHolds(cards[1].first_time, SLOT_FIRST)
       /\ C2_FieldHolds(cards[1].second_time, SLOT_SECOND)
       /\ C2_FieldHolds(cards[1].beginner_time, SLOT_BEGINNER)
       /\ events = C2_Example =>
              /\ cards[1].first_time = T_1200_1600
              /\ cards[1].beginner_time = T_1200_1400
              /\ cards[1].second_time = <<>>

\* The example of the claim has been built.
C2_Witness ==
    /\ pc = "built"
    /\ events = C2_Example
    /\ Len(cards) = 1
    /\ cards[1].first_time = T_1200_1600
    /\ cards[1].beginner_time = T_1200_1400

\* Three classified entries, two of them joined in one field.
C2_WitnessJoined ==
    /\ pc = "built"
    /\ Len(events) = 3
    /\ \A k \in 1..Len(events) : events[k].slot \in {SLOT_SECOND, SLOT_BEGINNER}
    /\ cards[1].second_time = T_0900_1300 \o TIME_SEP \o T_1200_1600
    /\ cards[1].beginner_time = T_1200_1400
\* The first slot, in the order beginner, second, first, of which the text
\* contains a marker; "" when it contains none.
FirstMarked(text, beginner, second, first) ==
    IF AnyIn(beginner, text) THEN SLOT_BEGINNER
    ELSE IF AnyIn(second, text) THEN SLOT_SECOND
    ELSE IF AnyIn(first, text) THEN SLOT_FIRST
    ELSE <<>>

\* What the hint alone yields.
HintYield == FirstMarked(Lower(Strip(slot_in.slot)), HintBeginnerTokens,
                         HintSecondTokens, HintFirstTokens)

\* C3 as stated: the title is searched by the same three checks as the hint.
C3_SameChecksOnTitle ==
    pc = "classified" =>
        slot_out[1] =
            IF HintYield # <<>> THEN HintYield
            ELSE FirstMarked(Strip(slot_in.title), HintBeginnerTokens,
                             HintSecondTokens, HintFirstTokens)

\* C3, amended: _normalize_slot returns the first match in the order beginner,
\* second, first found in the hint; only when the hint matches none of the
\* three does it check the title, in the same order but for the Japanese
\* markers alone (the words beginner, second and first are hint tokens only);
\* "" when neither matches.  A title with a beginner marker and a first marker,
\* under a hint that yields nothing, classifies as beginner.
C3_HintThenTitleMarkers ==
    pc = "classified" =>
        /\ slot_out[1] =
               IF HintYield # <<>> THEN HintYield
               ELSE FirstMarked(Strip(slot_in.title), TitleBeginnerTokens,
                                TitleSecondTokens, TitleFirstTokens)
        /\ (/\ HintYield = <<>>
            /\ AnyIn(TitleBeginnerTokens, Strip(slot_in.title))
            /\ AnyIn(TitleFirstTokens, Strip(slot_in.title)))
           => slot_out[1] = SLOT_BEGINNER

\* A hint that yields nothing, a title with a first marker before a beginner
\* marker: classified beginner.
C3_Witness ==
    /\ pc = "classified"
    /\ slot_in.slot = <<>>
    /\ slot_in.title = JP_ICHIBU \o JP_SHOKAI
    /\ slot_out = <<SLOT_BEGINNER>>

\* C4 as stated: a beginner marker in the hint or in the title always wins.
C4_BeginnerAlwaysWins ==
    (/\ pc = "classified"
     /\ \/ AnyIn(HintBeginnerTokens, Lower(Strip(slot_in.slot)))
        \/ AnyIn(TitleBeginnerTokens, Strip(slot_in.title)))
    => slot_out[1] = SLOT_BEGINNER

\* C4, amended: a beginner marker in the hint gives beginner whatever else the
\* hint or the title contains; a beginner marker in the title gives beginner
\* when the hint contains no marker of any slot, whatever else the title
\* contains.
C4_BeginnerWinsWithinDecidingText ==
    pc = "classified" =>
        /\ AnyIn(HintBeginnerTokens, Lower(Strip(slot_in.slot)))
               => slot_out[1] = SLOT_BEGINNER
        /\ (/\ HintYield = <<>>
            /\ AnyIn(TitleBeginnerTokens, Strip(slot_in.title)))
           => slot_out[1] = SLOT_BEGINNER

\* A hint with a first marker before a beginner marker, a title with a second
\* marker: classified beginner.
C4_Witness ==
    /\ pc = "classified"
    /\ slot_in.slot = <<"F", "i", "r", "s", "t">> \o SLOT_BEGINNER
    /\ slot_in.title = JP_2BU
    /\ slot_out = <<SLOT_BEGINNER>>
\* The distinct non-empty stripped venues among the merged entries of a key.
GroupVenues(key) ==
    { Strip(merged[k].venue) :
        k \in { n \in 1..Len(merged) : ClaimKey(merged[n].classroom) = key } }
        \ {<<>>}

\* The venue the claim gives a group: none, the single one, or the sentinel.
ClaimedVenue(key) ==
    IF GroupVenues(key) = {} THEN <<>>
    ELSE IF Cardinality(GroupVenues(key)) = 1
         THEN CHOOSE v \in GroupVenues(key) : TRUE
         ELSE MULTI_VENUE

\* C5: after any sequence of entries a card's venue is empty if no entry of its
\* classroom group had a non-empty venue, the single venue if all non-empty
\* venues of the group agree, and the multiple-venues sentinel if two differ;
\* once it is the sentinel, merging the next entry leaves it the sentinel; the
\* merge of the next entry always yields a card for its key.
C5_VenueReconciled ==
    /\ \A i \in 1..Len(by_key) : by_key[i].card.venue = ClaimedVenue(by_key[i].key)
    /\ pc = "built" =>
           \A j \in 1..Len(cards) :
               cards[j].venue = ClaimedVenue(ClaimKey(cards[j].classroom))
    /\ (pc = "merge" /\ queue # <<>>) =>
           LET after == MergeEntryInto(by_key, Head(queue))
           IN  /\ HasKey(after, ClaimKey(Head(queue).classroom))
               /\ \A i \in 1..Len(by_key) :
                      by_key[i].card.venue = MULTI_VENUE =>
                          /\ after[i].key = by_key[i].key
                          /\ after[i].card.venue = MULTI_VENUE

\* Three entries of one classroom with venues X, Y, X: the sentinel was set by
\* the second entry and kept through the third.
C5_Witness ==
    /\ pc = "built"
    /\ Len(merged) = 3
    /\ \A k \in 1..3 : merged[k].classroom = CLASS_A
    /\ merged[1].venue = VENUE_X
    /\ merged[2].venue = VENUE_Y
    /\ merged[3].venue = VENUE_X
    /\ Len(cards) = 1
    /\ cards[1].venue = MULTI_VENUE

\* The distinct texts of a sequence, in order of first occurrence.
RECURSIVE FirstOccurrences(_)
FirstOccurrences(q) ==
    IF q = <<>> THEN <<>>
    ELSE LET front == FirstOccurrences(SubSeq(q, 1, Len(q) - 1))
         IN  IF InSeq(q[Len(q)], front) THEN front ELSE Append(front, q[Len(q)])

\* C6: after merging any sequence of formatted time texts into one field,
\* expanding the field on " / " yields every distinct text exactly once, in
\* order of first occurrence, padding kept; merging a text that is already
\* present returns the field unchanged.
C6_MergeKeepsDistinctInOrder ==
    /\ ExpandTimeValues(field) = FirstOccurrences(texts_done)
    /\ \A t \in MergeTexts :
           InSeq(t, ExpandTimeValues(field)) => MergeTimeText(field, t) = field

\* A padded text merged twice around another text is held once, in first place.
C6_Witness ==
    /\ texts_done = <<T_0900_1300, T_1200_1600, T_0900_1300>>
    /\ ExpandTimeValues(field) = <<T_0900_1300, T_1200_1600>>
    /\ field = T_0900_1300 \o TIME_SEP \o T_1200_1600

TimeFields == {"first_time", "second_time", "beginner_time"}

\* C7 as stated: after the backfill, a value that the backfill placed into a
\* still-empty field does not appear in another of the three fields.  (In state
\* "sort" cards[i] is the backfilled by_key[i].card.)
C7_BackfillSkipsUsedValues ==
    pc = "sort" =>
        \A i \in 1..Len(cards) : \A f \in TimeFields :
            (by_key[i].card[f] = <<>> /\ cards[i][f] # <<>>) =>
                \A g \in TimeFields \ {f} :
                    ~InSeq(cards[i][f], ExpandTimeValues(cards[i][g]))

\* The expanded first_time and second_time values of the drawn card.
DrawnValues ==
    ExpandTimeValues(cards[1].first_time) \o ExpandTimeValues(cards[1].second_time)

IsMorningText(v) ==
    /\ ExtractStartHourFromTimeText(v) # <<>>
    /\ ExtractStartHourFromTimeText(v)[1] < NoonHour

IsAfternoonText(v) ==
    /\ ExtractStartHourFromTimeText(v) # <<>>
    /\ ExtractStartHourFromTimeText(v)[1] >= NoonHour

IsUnparsedText(v) == ExtractStartHourFromTimeText(v) = <<>>

DayValues == SelectSeq(DrawnValues, LAMBDA v : ~IsNightTimeText(v))

DayMorning == SelectSeq(DayValues, IsMorningText)

DayAfternoon == SelectSeq(DayValues, IsAfternoonText)

DayUnparsed == SelectSeq(DayValues, IsUnparsedText)

\* C8: _build_fixed_time_rows returns two lines and a beginner string; with a
\* first_time/second_time value, line1 is the first non-night morning value,
\* else the first non-night afternoon value, else the first non-night value
\* with no parseable hour, else empty, and never a night value; a card with no
\* time value at all yields the undecided sentinel and an empty line2.
C8_Line1Choice ==
    Len(drawn) = 1 =>
        /\ Len(drawn[1].lines) = 2
        /\ drawn[1].beginner_time = HeadOr(ExpandTimeValues(cards[1].beginner_time), <<>>)
        /\ DrawnValues # <<>> =>
               /\ drawn[1].lines[1] =
                      IF DayMorning # <<>> THEN Head(DayMorning)
                      ELSE IF DayAfternoon # <<>> THEN Head(DayAfternoon)
                      ELSE IF DayUnparsed # <<>> THEN Head(DayUnparsed)
                      ELSE <<>>
               /\ ~IsNightTimeText(drawn[1].lines[1])
        /\ (DrawnValues = <<>> /\ ExpandTimeValues(cards[1].beginner_time) = <<>>) =>
               drawn[1].lines = <<UNDECIDED_TIME, <<>>>>

\* An afternoon and a night value before a morning value: line1 is the morning
\* value.
C8_Witness ==
    /\ Len(drawn) = 1
    /\ cards[1].first_time = T_1200_1600 \o TIME_SEP \o T_1730_2000
    /\ cards[1].second_time = T_0900_1300
    /\ drawn[1].lines[1] = T_0900_1300

\* C9 as stated: without a night value, line2 is the first non-night value, in
\* the order of the expanded values, that differs from line1.
C9_Line2InValueOrder ==
    Len(drawn) = 1 =>
        drawn[1].lines[2] =
            IF SelectSeq(DrawnValues, IsNightTimeText) # <<>>
            THEN Head(SelectSeq(DrawnValues, IsNightTimeText))
            ELSE FirstOther(DayValues, drawn[1].lines[1])

\* C9, amended: line2 is the first night value among the expanded
\* first_time/second_time values when there is one; otherwise it is the first
\* value that differs from line1 among the non-night afternoon values, then the
\* non-night values with no parseable hour, then all non-night values, each
\* group in the order of the expanded values (empty when there is none).
C9_Line2AfternoonFirst ==
    Len(drawn) = 1 =>
        drawn[1].lines[2] =
            IF SelectSeq(DrawnValues, IsNightTimeText) # <<>>
            THEN Head(SelectSeq(DrawnValues, IsNightTimeText))
            ELSE FirstOther(DayAfternoon \o DayUnparsed \o DayValues,
                            drawn[1].lines[1])

\* An undecided value and a morning value before an afternoon value, no night
\* value: line1 is the morning value and line2 the afternoon value, not the
\* undecided value that comes first.
C9_Witness ==
    /\ Len(drawn) = 1
    /\ cards[1].first_time = UNDECIDED_TIME
    /\ cards[1].second_time = T_0900_1300 \o TIME_SEP \o T_1200_1600
    /\ drawn[1].lines = <<T_0900_1300, T_1200_1600>>

C10_WitnessEmptyLine1 ==
    /\ Len(drawn) = 1
    /\ cards[1].has_night
    /\ drawn[1].lines = <<<<>>, T_1730_2000>>
    /\ drawn[1].night_time_indexes = {0}

\* The entries of the classroom group of a card.
GroupOf(card) ==
    { events[k] : k \in { n \in 1..Len(events) :
                            ClaimKey(events[n].classroom) = ClaimKey(card.classroom) } }

\* A night marker as one notion for both texts: the word "night" in any case or
\* the character for night.
HasNightMarker(text) ==
    Contains(Lower(text), NIGHT_WORD) \/ Contains(text, NIGHT_MARK)

\* C11 as stated, with one notion of night marker for the slot text and the
\* title: a returned card has has_night exactly when an entry of its group has
\* start hour >= 17, end hour >= 20, or a night marker in its slot or title.
C11_NightByAnyMarker ==
    pc = "built" =>
        \A i \in 1..Len(cards) :
            cards[i].has_night <=>
                \E e \in GroupOf(cards[i]) :
                    \/ e.start # <<>> /\ e.start[1] >= 17
                    \/ e.end # <<>> /\ e.end[1] >= 20
                    \/ HasNightMarker(e.slot)
                    \/ HasNightMarker(e.title)

\* C11: a returned card has has_night exactly when an entry of its own
\* classroom group has start hour >= 17, or end hour >= 20, or a slot text
\* containing "night" (any case) or the night character, or a title containing
\* the night character; the word "night" in a title does not count, and entries
\* of other classrooms never set the flag.
C11_NightFlagOfGroup ==
    pc = "built" =>
        \A i \in 1..Len(cards) :
            cards[i].has_night <=>
                \E e \in GroupOf(cards[i]) :
                    \/ e.start # <<>> /\ e.start[1] >= 17
                    \/ e.end # <<>> /\ e.end[1] >= 20
                    \/ HasNightMarker(e.slot)
                    \/ Contains(e.title, NIGHT_MARK)

\* Two cards: one whose only night entry is night by its end hour alone, and
\* one of the other classroom, without a night entry, that stays unflagged.
C11_Witness ==
    /\ pc = "built"
    /\ Len(cards) = 2
    /\ \E i, j \in 1..Len(cards) :
           /\ cards[i].classroom = CLASS_A /\ cards[i].has_night
           /\ cards[j].classroom = CLASS_B /\ ~cards[j].has_night
    /\ \E k \in 1..Len(events) :
           /\ events[k].classroom = CLASS_A
           /\ events[k].start # <<>> /\ events[k].start[1] < 17
           /\ events[k].end[1] >= 20
    /\ \A k \in 1..Len(events) : events[k].start # <<>> /\ events[k].start[1] < 17

\* The entries of the caller's list dated d, in the order of the list.
EntriesDated(d) == SelectSeq(entries_before, LAMBDA e : e.day = d)

\* C12: when the image is returned, every cell was handed exactly the entries
\* whose full date is the cell's date (sorted by _entry_sort_key); so an entry
\* of an adjacent month is drawn in the visible cell of its own date or
\* nowhere, never in the target-month cell with the same day number.
C12_CellGetsEntriesOfItsDate ==
    pc = "rendered" =>
        /\ \A n \in 1..Len(cells) :
               cells[n].events = SortEntries(EntriesDated(cells[n].date))
        /\ \A k \in 1..Len(entries_before) : \A n \in 1..Len(cells) :
               (cells[n].date.day = entries_before[k].day.day
                    /\ cells[n].date # entries_before[k].day)
                   => ~InSeq(entries_before[k], cells[n].events)

\* February 2026 rendered from an entry of 26 January and an entry of 2 March:
\* the first is handed to the grey cell of 26 January, the second to no cell,
\* and the cells of 26 February and 2 February get nothing.
C12_Witness ==
    /\ pc = "rendered"
    /\ target = <<2026, 2>>
    /\ Len(entries_before) = 2
    /\ entries_before[1].day = Date(2026, 1, 26)
    /\ entries_before[2].day = Date(2026, 3, 2)
    /\ \E n \in 1..Len(cells) :
           cells[n].date = Date(2026, 1, 26) /\ cells[n].events = <<entries_before[1]>>
    /\ \A n \in 1..Len(cells) :
           cells[n].date # Date(2026, 1, 26) => cells[n].events = <<>>

\* C13: at every point of a render, and after it returned or raised, the
\* caller's entries list holds the same entries in the same order as when
\* render_monthly_schedule_image was called.
C13_EntriesListUntouched ==
    pc \in {"render", "group", "cells", "rendered", "raised"} =>
        heap[1] = entries_before

\* A returned image for a list holding two entries of one day with the later
\* start first: the cell got them sorted, the caller's list still has them as
\* given.
C13_Witness ==
    /\ pc = "rendered"
    /\ Len(entries_before) = 2
    /\ entries_before[1].day = entries_before[2].day
    /\ entries_before[1].classroom = entries_before[2].classroom
    /\ entries_before[1].start[1] > entries_before[2].start[1]
    /\ heap[1] = entries_before
    /\ \E n \in 1..Len(cells) :
           cells[n].events = <<entries_before[2], entries_before[1]>>

\* A render that raised on the fonts, with a non-empty list.
C13_WitnessRaised ==
    /\ pc = "raised"
    /\ Len(entries_before) = 2
    /\ heap[1] = entries_before

\* The capacity as C14 gives it: max(1, (available height + card gap) div slot
\* height), where the available height is what the cell leaves below the day
\* number and above the bottom margin, zero when that is negative.
C14_Capacity ==
    LET top == cell_rect.y1 + (IF metrics.day_number + 16 > 50
                               THEN metrics.day_number + 16 ELSE 50)
        room == cell_rect.y2 - top - 6
        available == IF room > 0 THEN room ELSE 0
        line == metrics.time + 3
        base == IF metrics.classroom + 8 + 2 * line + 20 > 90
                THEN metrics.classroom + 8 + 2 * line + 20 ELSE 90
        slot == base + 6 + metrics.beginner_label + line + 6
        fit == (available + 6) \div slot
    IN  IF fit > 1 THEN fit ELSE 1

\* C14: a _draw_day_events call on a day of N >= 1 cards with capacity K draws
\* exactly min(N, K) cards, at least one, and draws the marker "+(N-K)件"
\* exactly when N > K; drawn cards plus the marker's count equal N.
C14_CardsAndOverflowMarker ==
    pc = "cell_drawn" =>
        LET N == Len(cells[1].drawn.cards)
            K == C14_Capacity
            shown == Len(cells[1].drawn.visible)
        IN  /\ N = Len(cards)
            /\ shown = (IF N < K THEN N ELSE K)
            /\ shown >= 1
            /\ (cells[1].drawn.marker # <<>>) <=> (N > K)
            /\ N > K => cells[1].drawn.marker = <<"+">> \o Decimal(N - K) \o <<"u4EF6">>
            /\ N <= K => shown = N

\* Forty cards in a cell with capacity four: four cards and "+36件".
C14_Witness ==
    /\ pc = "cell_drawn"
    /\ Len(cells[1].drawn.cards) = 40
    /\ C14_Capacity = 4
    /\ Len(cells[1].drawn.visible) = 4
    /\ cells[1].drawn.marker = <<"+", "3", "6", "u4EF6">>

\* One card drawn in a cell that ends above its top.
C14_WitnessDegenerate ==
    /\ pc = "cell_drawn"
    /\ cell_rect.y2 < cell_rect.y1
    /\ Len(cells[1].drawn.cards) = 3
    /\ Len(cells[1].drawn.visible) = 1
    /\ cells[1].drawn.marker = <<"+", "2", "u4EF6">>

\* C15: every entry returned by extract_month_entries_from_json has its day
\* in the requested range (the month, or its visible calendar range with
\* include_adjacent), and the result with include_adjacent holds every
\* entry of the month-only result.
C15_EntriesInRequestedRange ==
    pc = "extracted" =>
        LET out == extracted[1].out
            range == ExtractRange(JSON_MONTH[1], JSON_MONTH[2], include_adjacent)
            month_only == ExtractMonthEntriesFromJson(data, JSON_MONTH[1],
                                                      JSON_MONTH[2], FALSE, today)
        IN  /\ \A i \in 1..Len(out) : DateInRange(out[i].day, range)
            /\ (include_adjacent /\ ~month_only.raised) =>
                   \A j \in 1..Len(month_only.out) :
                       \E i \in 1..Len(out) : out[i] = month_only.out[j]

C16_Payload == IF IsJDict(JGet(data, "data")) THEN JGet(data, "data") ELSE data

C16_Range == ExtractRange(JSON_MONTH[1], JSON_MONTH[2], include_adjacent)

\* The in-range entries the dates mapping yields.
C16_FromDates ==
    IF IsJDict(JGet(C16_Payload, "dates"))
    THEN DatesEntries(JGet(C16_Payload, "dates").items, C16_Range, today, NoEntries).out
    ELSE <<>>

\* The in-range entries the flat list under LIST_KEYS[i] yields.
C16_FromList(i) ==
    IF IsJList(JGet(C16_Payload, LIST_KEYS[i]))
    THEN ListEntries(JGet(C16_Payload, LIST_KEYS[i]).elems, C16_Range, today,
                     NoEntries).out
    ELSE <<>>

\* C16: extract_month_entries_from_json never raises on malformed records;
\* when the dates mapping yields an entry the result is what it yields, and
\* otherwise the result is what the first of the list keys entries,
\* schedules, lessons, items that yields an in-range entry yields.
C16_NeverRaisesAndFallsBack ==
    pc \in {"extracted", "raised"} =>
        /\ ~extracted[1].raised
        /\ C16_FromDates # <<>> => extracted[1].out = SortEntries(C16_FromDates)
        /\ C16_FromDates = <<>> =>
              \/ /\ \A i \in 1..Len(LIST_KEYS) : C16_FromList(i) = <<>>
                 /\ extracted[1].out = <<>>
              \/ \E i \in 1..Len(LIST_KEYS) :
                     /\ C16_FromList(i) # <<>>
                     /\ \A j \in 1..(i - 1) : C16_FromList(j) = <<>>
                     /\ extracted[1].out = SortEntries(C16_FromList(i))

RECURSIVE C17_NonBlank(_)
C17_NonBlank(paths) ==
    IF paths = <<>> THEN <<>>
    ELSE IF Strip(Head(paths)) = <<>> THEN C17_NonBlank(Tail(paths))
    ELSE <<Strip(Head(paths))>> \o C17_NonBlank(Tail(paths))

\* The non-empty candidates of the call in the claimed order: explicit path,
\* file derived from font_path, cache file, OS install paths.
C17_Order ==
    C17_NonBlank(<<ExplicitFontPath(config, font_role),
                   BaseFile(config, fs, font_role),
                   CacheDir(config) \o <<FontFileName(font_role)>>>>
                 \o OsFontPaths(font_role))

C17_Downloads == { i \in 1..Len(io_logs[1]) : io_logs[1][i].op = "download" }

\* How many accesses the call made before its first download.
C17_Examined ==
    IF C17_Downloads = {} THEN Len(io_logs[1])
    ELSE (CHOOSE i \in C17_Downloads : \A j \in C17_Downloads : i <= j) - 1

\* C17: _resolve_single_font examines the non-empty candidates in the order
\* explicit path, font_path-derived file, cache file, OS install paths and
\* returns the first that validates; after a candidate validates no other
\* candidate is examined and nothing is downloaded; a download happens only
\* after every candidate was examined and none validated.
C17_FirstValidCandidateWins ==
    pc \in {"font_resolved", "font_raised"} =>
        LET log == io_logs[1]
            n == C17_Examined
        IN  /\ n <= Len(C17_Order)
            /\ \A i \in 1..n : log[i] = IoEvent("validate", C17_Order[i])
            /\ C17_Downloads = {} =>
                   /\ pc = "font_resolved"
                   /\ n >= 1
                   /\ font_paths = <<C17_Order[n]>>
                   /\ IsValidFontPath(fs, C17_Order[n])
                   /\ \A i \in 1..(n - 1) : ~IsValidFontPath(fs, C17_Order[i])
            /\ C17_Downloads # {} =>
                   /\ n = Len(C17_Order)
                   /\ \A i \in 1..n :
                          (C17_Order[i] # CacheDir(config) \o <<FontFileName(font_role)>>
                           \/ net \in {"error", "empty"})
                          => ~IsValidFontPath(fs, C17_Order[i])

\* A blank explicit path is skipped, the file in the font_path directory
\* fails, the cache file validates and is returned; the OS path that holds
\* a font is never examined and nothing is downloaded.
C17_Witness ==
    /\ pc = "font_resolved"
    /\ font_role = "jp_regular"
    /\ config.font_jp_regular_path = BLANK_PATH
    /\ config.font_path = BASE_DIR
    /\ io_logs[1] = <<IoEvent("validate", BASE_DIR \o <<FontFileName("jp_regular")>>),
                      IoEvent("validate", DEFAULT_CACHE_DIR \o <<FontFileName("jp_regular")>>)>>
    /\ font_paths = <<DEFAULT_CACHE_DIR \o <<FontFileName("jp_regular")>>>>
    /\ IsValidFontPath(fs, OsFontPaths("jp_regular")[2])

C18_Log == io_logs[1]

C18_CacheFiles == { CacheDir(config) \o <<FontFileName(FontRoles[i])>> : i \in 1..4 }

\* C18: in a render, a download is attempted only after the six candidates of
\* a role failed, at most once per role, into the role's cache file, and is
\* followed at once by one validation of that file and by nothing else for
\* the role.  If the file validates the resolution goes on; if not, whether
\* the download raised or wrote something that is no font, the render is
\* over with no image and no further access.
C18_OneDownloadThenFatal ==
    io_logs # <<>> =>
        /\ \A i \in 1..Len(C18_Log) :
               C18_Log[i].op = "download" =>
                   /\ C18_Log[i].path \in C18_CacheFiles
                   /\ i > 6 /\ \A k \in (i - 6)..(i - 1) : C18_Log[k].op = "validate"
                   /\ C18_Log[i - 6].path = C18_Log[i].path
                   /\ i < Len(C18_Log)
                   /\ C18_Log[i + 1] = IoEvent("validate", C18_Log[i].path)
                   /\ \A j \in 1..Len(C18_Log) :
                          (j # i /\ C18_Log[j].op = "download")
                          => C18_Log[j].path # C18_Log[i].path
                   /\ \A j \in (i + 2)..Len(C18_Log) :
                          C18_Log[j].path # C18_Log[i].path
                   /\ ~IsValidFontPath(fs, C18_Log[i].path)
                      <=> (pc = "raised" /\ i + 1 = Len(C18_Log))
        /\ pc = "raised" =>
               /\ Len(C18_Log) >= 2
               /\ C18_Log[Len(C18_Log) - 1].op = "download"
               /\ images = <<>>
               /\ cells = <<>>
               /\ Len(io_logs) = 1
        /\ images # <<>> =>
               \A i \in 1..4 : IsValidFontPath(fs, font_paths[i])

\* The third font is nowhere and the download raises: one download, one
\* more validation, and the render is over without an image.
C18_Witness ==
    /\ pc = "raised"
    /\ net = "error"
    /\ Cardinality({ i \in 1..Len(C18_Log) : C18_Log[i].op = "download" }) = 1
    /\ C18_Log[Len(C18_Log)]
         = IoEvent("validate", DEFAULT_CACHE_DIR \o <<FontFileName("num_regular")>>)
    /\ images = <<>>

\* The download wrote a file that is no font.
C18_WitnessGarbage ==
    /\ pc = "raised"
    /\ net = "garbage"
    /\ C18_Log[Len(C18_Log) - 1]
         = IoEvent("download", DEFAULT_CACHE_DIR \o <<FontFileName("jp_regular")>>)
    /\ DEFAULT_CACHE_DIR \o <<FontFileName("jp_regular")>> \in fs.files
    /\ images = <<>>

\* C19: font resolution runs once per process and is cached: in a process
\* that renders several images only the first render checks font paths or
\* downloads, every later render makes no file system or network access.
C19_FontsResolvedOncePerProcess ==
    \A k \in 2..Len(io_logs) : io_logs[k] = <<>>

\* The sizes of both fonts of the given set at a scale in hundredths.
C20_SizesAt(fonts, scale) ==
    <<Max(1, (fonts.jp_size * scale + 50) \div 100),
      Max(1, (fonts.num_size * scale + 50) \div 100)>>

C20_FitsAt(scale) ==
    LET sizes == C20_SizesAt(fit_in.fonts, scale)
    IN  fit_in.text.jp * sizes[1] + (fit_in.text.ascii * sizes[2] * 6) \div 10
        <= fit_in.max_width

C20_Fits == MixedTextWidth(fit_in.text, fit_in.fonts) <= fit_in.max_width

C20_SizesOut == <<fit_out[1].fonts.jp_size, fit_out[1].fonts.num_size>>

\* C20 as stated: the given set itself when the text fits; otherwise the set
\* at the first scale of 0.96, 0.92, ... (steps of 0.04) at which the text
\* fits, both fonts scaled by it; never above 1.0.
C20_FirstFittingScaleOfSequence ==
    pc = "fitted" =>
        /\ C20_Fits => fit_out[1].same
        /\ ~C20_Fits =>
               \E k \in 0..23 :
                   /\ C20_SizesOut = C20_SizesAt(fit_in.fonts, 96 - 4 * k)
                   /\ C20_FitsAt(96 - 4 * k)
                   /\ \A j \in 0..(k - 1) : ~C20_FitsAt(96 - 4 * j)
        /\ C20_SizesOut[1] <= fit_in.fonts.jp_size
        /\ C20_SizesOut[2] <= fit_in.fonts.num_size

\* The scales the loop tries: 0.96 down to 0.64.
C20_Tried == { 96 - 4 * k : k \in 0..8 }

\* C20 amended: the given set itself when the text fits or the fonts cannot
\* be scaled; otherwise the set at the first of the scales 0.96, 0.92, ...,
\* 0.64 at which the text fits, and the set at 0.64, where the text does not
\* fit, when it fits at none of them; both fonts are scaled by that one
\* factor and no size is above the given one.
C20_FirstFittingScaleDownToFloor ==
    pc = "fitted" =>
        LET fitting == { sc \in C20_Tried : C20_FitsAt(sc) }
            out == fit_out[1]
        IN  /\ (C20_Fits \/ ~fit_in.fonts.scalable) <=> out.same
            /\ out.same => out.fonts = fit_in.fonts /\ out.scale = 100
            /\ ~out.same =>
                   /\ out.scale \in C20_Tried
                   /\ C20_SizesOut = C20_SizesAt(fit_in.fonts, out.scale)
                   /\ fitting # {} =>
                          /\ out.scale \in fitting
                          /\ \A sc \in fitting : sc <= out.scale
                          /\ MixedTextWidth(fit_in.text, out.fonts) <= fit_in.max_width
                   /\ fitting = {} =>
                          /\ out.scale = 64
                          /\ MixedTextWidth(fit_in.text, out.fonts) > fit_in.max_width
            /\ C20_SizesOut[1] <= fit_in.fonts.jp_size
            /\ C20_SizesOut[2] <= fit_in.fonts.num_size

\* The text does not fit at 1.0, 0.96 and 0.92 and fits at 0.88.
C20_Witness ==
    /\ pc = "fitted"
    /\ ~C20_Fits
    /\ ~C20_FitsAt(96) /\ ~C20_FitsAt(92)
    /\ fit_out[1].scale = 88
    /\ MixedTextWidth(fit_in.text, fit_out[1].fonts) <= fit_in.max_width

\* The text fits at 0.60 only: the set at 0.64 is returned, too wide.
C20_WitnessFloor ==
    /\ pc = "fitted"
    /\ ~C20_FitsAt(64) /\ C20_FitsAt(60)
    /\ fit_out[1].scale = 64
    /\ MixedTextWidth(fit_in.text, fit_out[1].fonts) > fit_in.max_width

\* ------------------------------------------------------------------------
\* C21: for a fixed text and font set, along a shrinking sequence of
\* max-widths the scale of the set _fit_font_set_to_width returns never
\* increases: a call with a width not above an earlier one returns a scale
\* not above the earlier one.
C21_ScaleNonIncreasing ==
    pc = "shrink" =>
        \A i, j \in 1..Len(fit_out) : i < j => fit_out[j].scale <= fit_out[i].scale

\* Three calls with shrinking widths: the text fits, then fits at a scale
\* of the loop, then at none.
C21_Witness ==
    /\ pc = "shrink"
    /\ Len(fit_out) = 3
    /\ fit_out[1].scale = 100
    /\ fit_out[2].scale < 100
    /\ fit_out[2].scale > fit_out[3].scale
    /\ MixedTextWidth(fit_in.text, fit_out[3].fonts) > fit_in.max_width

\* ------------------------------------------------------------------------
\* C22: _split_text_runs returns non-empty runs whose concatenation in
\* order is the input; every run holds only ASCII-range characters or only
\* characters outside the range, and its flag says which; adjacent runs
\* have opposite flags; the empty string gives no runs.
C22_AsciiRange == { CharOrder[k] : k \in 1..Ord("u007F") }

C22_Chunks == [i \in 1..Len(runs) |-> runs[i][1]]

C22_MaximalRunsInOrder ==
    pc = "split_done" =>
        /\ \A i \in 1..Len(runs) :
              /\ runs[i][1] # <<>>
              /\ runs[i][2] \in BOOLEAN
              /\ \A k \in 1..Len(runs[i][1]) :
                    runs[i][2] <=> (runs[i][1][k] \in C22_AsciiRange)
        /\ \A i \in 1..(Len(runs) - 1) : runs[i][2] # runs[i + 1][2]
        /\ Concat(C22_Chunks) = split_text
        /\ split_text = <<>> => runs = <<>>

\* A text whose ASCII run ends with the last character of the range and is
\* followed by the first character after it.
C22_Witness ==
    /\ pc = "split_done"
    /\ split_text = <<"u591C", "A", "u007F", "u0080">>
    /\ runs = << << <<"u591C">>, FALSE >>, << <<"A", "u007F">>, TRUE >>,
                 << <<"u0080">>, FALSE >> >>

C22_WitnessEmpty ==
    /\ pc = "split_done"
    /\ split_text = <<>>
    /\ runs = <<>>

\* ------------------------------------------------------------------------
\* C23: when all of a day's cards are shown, _draw_day_events stacks them
\* from the top of the card area, just below the day number; when cards
\* are hidden, the shown cards end at the cell's bottom margin.
C23_TopAlignedWhenAllFit ==
    pc = "cell_drawn" =>
        LET d == cells[1].drawn
            shown == Len(d.tops)
        IN  /\ d.marker = <<>> =>
                  d.tops[1] = cell_rect.y1
                                + (IF metrics.day_number + 16 > 50
                                   THEN metrics.day_number + 16 ELSE 50)
            /\ d.marker # <<>> =>
                  d.tops[shown] + CardHeight(metrics) = cell_rect.y2 - 6

\* C24: when cards are hidden, the marker is drawn below the last shown card
\* and inside the cell: its text ends at or above the cell's bottom edge.
C24_MarkerInsideCell ==
    pc = "cell_drawn" =>
        LET d == cells[1].drawn
        IN  d.marker # <<>> =>
               /\ d.hidden_y[1] >= d.tops[Len(d.tops)] + CardHeight(metrics)
               /\ d.hidden_y[1] < cell_rect.y2
               /\ d.hidden_y[1] + metrics.hidden <= cell_rect.y2

\* ------------------------------------------------------------------------
\* The sizes of the two fonts of the given set at a scale in hundredths.
C25_SizesAt(scale) ==
    << IF (fit_in.fonts.jp_size * scale + 50) \div 100 < 1 THEN 1
       ELSE (fit_in.fonts.jp_size * scale + 50) \div 100,
       IF (fit_in.fonts.num_size * scale + 50) \div 100 < 1 THEN 1
       ELSE (fit_in.fonts.num_size * scale + 50) \div 100 >>

C25_WidthAt(scale) ==
    fit_in.text.jp * C25_SizesAt(scale)[1]
        + (fit_in.text.ascii * C25_SizesAt(scale)[2] * 6) \div 10

\* The text fits neither in the given set nor at any scale of the sequence
\* 0.96, 0.92, ... that is not below 0.62.
C25_FitsNowhere ==
    /\ fit_in.fonts.scalable
    /\ MixedTextWidth(fit_in.text, fit_in.fonts) > fit_in.max_width
    /\ \A k \in 0..8 : C25_WidthAt(96 - 4 * k) > fit_in.max_width

\* C25 as stated: when the text fits at no scale the function tries, the
\* returned set is the given one scaled to the floor 0.62.
C25_FloorScaledSetReturned ==
    (pc = "fitted" /\ C25_FitsNowhere) =>
        /\ fit_out[1].scale = 62
        /\ <<fit_out[1].fonts.jp_size, fit_out[1].fonts.num_size>> = C25_SizesAt(62)

\* C25 amended: when the text fits at no scale the function tries, the
\* returned set is the given one scaled to 0.64, the last scale of the
\* sequence 0.96, 0.92, ... that is not below the floor 0.62.
C25_LastScaleAboveFloorReturned ==
    (pc = "fitted" /\ C25_FitsNowhere) =>
        /\ ~fit_out[1].same
        /\ fit_out[1].scale = 64
        /\ fit_out[1].scale >= MIN_SCALE /\ fit_out[1].scale - SCALE_STEP < MIN_SCALE
        /\ <<fit_out[1].fonts.jp_size, fit_out[1].fonts.num_size>> = C25_SizesAt(64)

\* A text that fits at no scale down to 0.60: the set at 0.64 is returned,
\* with sizes that differ from those at 0.62.
C25_Witness ==
    /\ pc = "fitted"
    /\ C25_FitsNowhere
    /\ C25_WidthAt(60) > fit_in.max_width
    /\ fit_in.max_width > 0
    /\ fit_out[1].scale = 64
    /\ C25_SizesAt(64) # C25_SizesAt(62)

\* ------------------------------------------------------------------------
\* C26: for every card built from entries, if one of its two displayed time
\* lines is classified as night by its leading hour (>= 17), a night badge
\* is drawn on the card: its set of badge line indexes is not empty.
C26_NightLineGetsBadge ==
    pc \in {"draw", "done"} =>
        \A i \in 1..Len(drawn) :
            (\E k \in 1..Len(drawn[i].lines) :
                 drawn[i].lines[k] # <<>> /\ IsNightTimeText(drawn[i].lines[k]))
                => drawn[i].night_time_indexes # {}

\* ------------------------------------------------------------------------
\* The HH:MM tokens of a time text, as minutes since midnight, in reading
\* order.
C27_Tokens(text) ==
    SplitWs(Replace(Replace(Replace(Strip(text), <<" ", "-", " ">>, SPACE),
                            <<"-">>, SPACE), TILDE, SPACE))

C27_Minutes(token) ==
    IF ~Contains(token, COLON) THEN <<>>
    ELSE LET hour == ParseInt(SplitHead(token, COLON))
             minute == ParseInt(SplitRest(token, COLON))
         IN  IF hour = <<>> \/ minute = <<>> THEN <<>>
             ELSE IF hour[1] \in 0..23 /\ minute[1] \in 0..59
             THEN <<hour[1] * 60 + minute[1]>>
             ELSE <<>>

C27_Times(text) ==
    LET tokens == C27_Tokens(text)
    IN  Concat([k \in 1..Len(tokens) |-> C27_Minutes(tokens[k])])

\* The field the key is read from: the first non-empty of the three.
C27_Field(card) ==
    IF card.first_time # <<>> THEN card.first_time
    ELSE IF card.second_time # <<>> THEN card.second_time
    ELSE card.beginner_time

\* The smallest time of the field, 10000 when it has none.
C27_Earliest(card) ==
    LET times == C27_Times(C27_Field(card))
    IN  IF times = <<>> THEN 10000
        ELSE CHOOSE t \in SeqSet(times) : \A u \in SeqSet(times) : t <= u

\* The first time of the field in reading order, 10000 when it has none.
C27_First(card) ==
    LET times == C27_Times(C27_Field(card))
    IN  IF times = <<>> THEN 10000 ELSE times[1]

\* C27 as stated: the returned cards are in ascending order of the earliest
\* HH:MM of the first non-empty of first_time, second_time, beginner_time;
\* a card without one sorts last; equal keys are ordered by classroom.
C27_CardsByEarliestTime ==
    pc = "built" =>
        \A i, j \in 1..Len(cards) :
            i < j =>
                \/ C27_Earliest(cards[i]) < C27_Earliest(cards[j])
                \/ /\ C27_Earliest(cards[i]) = C27_Earliest(cards[j])
                   /\ StrLess(cards[i].classroom, cards[j].classroom)

\* C27 amended: the returned cards are in ascending order of the first
\* parseable HH:MM, in reading order, of the first non-empty of first_time,
\* second_time, beginner_time; a card without one sorts last; equal keys
\* are ordered by classroom.
C27_CardsByFirstTime ==
    pc = "built" =>
        \A i, j \in 1..Len(cards) :
            i < j =>
                \/ C27_First(cards[i]) < C27_First(cards[j])
                \/ /\ C27_First(cards[i]) = C27_First(cards[j])
                   /\ StrLess(cards[i].classroom, cards[j].classroom)

\* The card of B (8:30) comes before the card of A, whose field reads 9:00
\* first and holds 8:00 after it.
C27_Witness ==
    /\ pc = "built"
    /\ Len(cards) = 2
    /\ cards[1].classroom = CLASS_B /\ C27_First(cards[1]) = 510
    /\ cards[2].classroom = CLASS_A
    /\ C27_First(cards[2]) = 540 /\ C27_Earliest(cards[2]) = 480

\* Two cards with the same first time, in the order of their classrooms,
\* before a card without a time.
C27_WitnessTie ==
    /\ pc = "built"
    /\ Len(cards) = 2
    /\ C27_First(cards[1]) = C27_First(cards[2])
    /\ C27_First(cards[1]) < 10000
    /\ cards[1].classroom = CLASS_A /\ cards[2].classroom = CLASS_B
    /\ events[1].classroom = CLASS_B

\* ------------------------------------------------------------------------
\* The rect of the cell in week row row (from 1) and column col (from 1) of
\* the rendered grid.
C28_Rect(row, col) == cells[(row - 1) * 7 + col].rect

C28_RowCount == Len(cells) \div 7

C28_GridWidth == config.width - Margin(config) * 2

C28_Usable == Max(7, C28_GridWidth - ColGap(config) * 6)

C28_Width(col) == C28_Rect(1, col).x2 - C28_Rect(1, col).x1

\* The seven widths are base or base + 1, the extra pixel goes to the
\* leftmost (usable mod 7) columns, and they add up to the usable width.
C28_ColumnWidths ==
    /\ \A col \in 1..7 :
           C28_Width(col) = C28_Usable \div 7
                                + (IF col - 1 < C28_Usable % 7 THEN 1 ELSE 0)
    /\ C28_Width(1) + C28_Width(2) + C28_Width(3) + C28_Width(4)
           + C28_Width(5) + C28_Width(6) + C28_Width(7) = C28_Usable

\* Every column starts one column gap after the previous one ends, the same
\* in every row, and the last one ends at width - margin when the usable
\* width is not clamped.
C28_ColumnPlaces ==
    /\ \A row \in 1..C28_RowCount :
           /\ C28_Rect(row, 1).x1 = Margin(config)
           /\ \A col \in 2..7 :
                  C28_Rect(row, col).x1 = C28_Rect(row, col - 1).x2 + ColGap(config)
           /\ \A col \in 1..7 :
                  C28_Rect(row, col).x2 - C28_Rect(row, col).x1 = C28_Width(col)
    /\ C28_GridWidth - ColGap(config) * 6 >= 7 =>
           C28_Rect(1, 7).x2 = config.width - Margin(config)

\* All week rows have the same height.
C28_RowHeights ==
    \A row \in 1..C28_RowCount : \A col \in 1..7 :
        C28_Rect(row, col).y2 - C28_Rect(row, col).y1
            = C28_Rect(1, 1).y2 - C28_Rect(1, 1).y1

\* The last row ends at or above the bottom margin.
C28_LastRowInside ==
    \A col \in 1..7 :
        C28_Rect(C28_RowCount, col).y2 <= config.height - Margin(config)

\* C28: in the rendered grid the seven column widths are base or base + 1
\* with the extra pixel in the leftmost (usable width mod 7) columns and sum
\* to the usable grid width; every column starts one column gap after the
\* previous one ends and the last ends at width - margin when the usable
\* width is not clamped; all week rows have the same height and the last
\* row ends at or above the bottom margin.
C28_GridGeometry ==
    pc = "rendered" =>
        /\ C28_ColumnWidths
        /\ C28_ColumnPlaces
        /\ C28_RowHeights
        /\ C28_LastRowInside

\* ------------------------------------------------------------------------
\* C29: the result of extract_month_entries_from_json depends on its
\* arguments only: the same data, year, month and include_adjacent give the
\* same entries on every current date, no record's day comes from the
\* clock.
C29_SameOnEveryDate ==
    pc = "extracted" =>
        \A other \in ClockDays :
            extracted[1] = ExtractMonthEntriesFromJson(data, JSON_MONTH[1], JSON_MONTH[2],
                                                       include_adjacent, other)

\* ------------------------------------------------------------------------
\* The first page of the query result whose response says no more.
C30_Last ==
    CHOOSE k \in 1..Len(notion) :
        ~notion[k].has_more /\ \A j \in 1..(k - 1) : notion[j].has_more

\* The range of the call.
C30_Range == ExtractRange(JSON_MONTH[1], JSON_MONTH[2], include_adjacent)

\* The in-range entries of one page of results, in order.
C30_PageEntries(results) ==
    Concat([i \in 1..Len(results) |->
               IF /\ ParsePage(results[i]).entry # <<>>
                  /\ DateInRange(ParsePage(results[i]).entry[1].day, C30_Range)
               THEN ParsePage(results[i]).entry ELSE <<>>])

\* The in-range entries of the pages up to the first one without more.
C30_Expected ==
    Concat([k \in 1..C30_Last |-> C30_PageEntries(notion[k].results)])

C30_Count(s, e) == Cardinality({ i \in 1..Len(s) : s[i] = e })

\* The i-th request asks for the i-th page: the first without a cursor,
\* every later one with the next_cursor of the response before it; no page
\* is asked for twice, and none after the first response without more.
C30_RequestsInCursorOrder ==
    pc # "fetch_call" =>
    /\ Len(requests) <= C30_Last
    /\ \A i \in 1..Len(requests) :
           /\ requests[i] = IF i = 1 THEN <<>> ELSE notion[i - 1].next_cursor
           /\ QueryResponse(notion, requests[i]) = notion[i]
           /\ \A j \in 1..Len(requests) : i # j => requests[i] # requests[j]
    /\ pc = "fetch" => Len(requests) < C30_Last
    /\ pc \in {"fetch_sort", "fetched"} => Len(requests) = C30_Last

\* The returned list holds every in-range entry of the fetched pages as
\* often as the pages hold it, and nothing else.
C30_EachEntryOnce ==
    pc = "fetched" =>
        /\ Len(fetched) = Len(C30_Expected)
        /\ \A e \in SeqSet(C30_Expected) :
               C30_Count(fetched, e) = C30_Count(C30_Expected, e)

\* C30: fetch_month_entries ends for every finite paginated result; it asks
\* for the pages in cursor order, handing each next_cursor to the next
\* request, never asks for a page twice, stops after the first response
\* whose has_more is false, and returns each in-range entry of the fetched
\* pages exactly once.
C30_FetchesEachPageOnce ==
    /\ [](C30_RequestsInCursorOrder /\ C30_EachEntryOnce)
    /\ (pc = "fetch") ~> (pc = "fetched")

\* Three pages were fetched, each through the cursor of the one before, and
\* an entry that two pages hold is returned twice.
C30_Witness ==
    /\ pc = "fetched"
    /\ Len(requests) = 3
    /\ requests[3] = PageCursor(3)
    /\ \E e \in SeqSet(fetched) : C30_Count(fetched, e) = 2

\* The second response said no more: the third page was never asked for.
C30_WitnessStop ==
    /\ pc = "fetched"
    /\ Len(notion) = 3
    /\ Len(requests) = 2
    /\ notion[3].results # <<>>
    /\ fetched # <<>>

====
